---- MODULE Spec2Model ----
(***************************************************************************)
(* Model of the invoice handlers of src/ai_invoice_generator/app.py:      *)
(* generate_invoice_number, calculate_invoice_total, create_invoice,      *)
(* update_invoice, delete_invoice, pay_invoice and add_client, over the   *)
(* two MongoDB collections (invoices, clients).                           *)
(*                                                                        *)
(* Representation.                                                        *)
(*  - A document or a request body is a function from its keys to values, *)
(*    so `k \in DOMAIN d` is Python's `k in d`.                           *)
(*  - Money (unit_price, total, amount_paid, amount) is an integer number *)
(*    of 1/10000 of the currency unit: 1.00 is One, 0.01 is Cent.         *)
(*    Quantities and percentages (tax, gst_rate) are plain integers.      *)
(*    Arithmetic is exact; binary floating point error is not modelled.   *)
(*  - A JSON scalar that the code passes to float() is a record           *)
(*    [t |-> tag, v |-> Int] with tag "num", "str" (a non-numeric         *)
(*    string), "nanstr" (the string "nan"), "bool", "null"; a Python      *)
(*    float is [t |-> "num", v] or [t |-> "nan"].                         *)
(*  - Strings that the code takes apart (invoice_number) are sequences of *)
(*    one-character strings.                                              *)
(***************************************************************************)
EXTENDS Integers, Sequences, FiniteSets, TLC

\* invoices, clients  the two collections (invoices_collection,
\*                    clients_collection): _id -> document
\* nextId, nextClientId  the next ObjectId insert_one assigns in each
\* now                the clock datetime.now() reads
\* inflight           the invoice documents of the create_invoice requests
\*                    that have generated a number and not inserted yet
\* pending            the other requests in flight: each has read the
\*                    collections and holds what it is about to write
\* call               the arguments and the result of the last call of
\*                    calculate_invoice_total or reports_summary
VARIABLES invoices, clients, nextId, nextClientId, now, inflight, pending, call

vars == <<invoices, clients, nextId, nextClientId, now, inflight, pending, call>>

(***************************************************************************)
(* Bounds: MaxOps requests that write and read the clock, MaxInvoices     *)
(* invoices inserted.                                                     *)
(***************************************************************************)
MaxOps == 3
MaxInvoices == 2

(***************************************************************************)
(* Units.                                                                 *)
(***************************************************************************)
Cent == 100
One == 100 * Cent

(***************************************************************************)
(* Python dict helpers.                                                   *)
(***************************************************************************)
EmptyDict == [k \in {} |-> 0]

Get(d, k, default) == IF k \in DOMAIN d THEN d[k] ELSE default

Pop(d, k) == [x \in DOMAIN d \ {k} |-> d[x]]

\* MongoDB {'$set': upd} on one document: the keys of upd are written, the
\* others are kept.
SetFields(doc, upd) ==
    [k \in DOMAIN doc \cup DOMAIN upd |-> IF k \in DOMAIN upd THEN upd[k] ELSE doc[k]]

(***************************************************************************)
(* Python floats and float().                                             *)
(***************************************************************************)
Num(n) == [t |-> "num", v |-> n]
NaN == [t |-> "nan", v |-> 0]
StrVal == [t |-> "str", v |-> 0]
NanStr == [t |-> "nanstr", v |-> 0]
NullVal == [t |-> "null", v |-> 0]
BoolVal(b) == [t |-> "bool", v |-> IF b THEN 1 ELSE 0]
ValueError == [t |-> "ValueError", v |-> 0]
TypeError == [t |-> "TypeError", v |-> 0]

IsNum(x) == x.t = "num"
IsErr(x) == x.t \in {"ValueError", "TypeError"}

\* float(x); `one` is the representation of 1.0 in the unit of the field.
PyFloat(x, one) ==
    CASE x.t = "num" -> x
      [] x.t = "nan" -> NaN
      [] x.t = "bool" -> Num(x.v * one)
      [] x.t = "nanstr" -> NaN
      [] x.t = "str" -> ValueError
      [] x.t = "null" -> TypeError
      [] OTHER -> TypeError

FAdd(a, b) == IF IsNum(a) /\ IsNum(b) THEN Num(a.v + b.v) ELSE NaN
FMul(a, b) == IF IsNum(a) /\ IsNum(b) THEN Num(a.v * b.v) ELSE NaN
\* x / 100; the inputs of the model keep the division exact.
FDiv100(a) == IF IsNum(a) THEN Num(a.v \div 100) ELSE NaN
\* Comparisons with NaN are false.
FGe(a, b) == IsNum(a) /\ IsNum(b) /\ a.v >= b.v
FGt(a, b) == IsNum(a) /\ IsNum(b) /\ a.v > b.v
FLe(a, b) == IsNum(a) /\ IsNum(b) /\ a.v <= b.v

\* round(x, 2): to the nearest cent, an exact tie to the even cent.
Round2(x) ==
    IF ~IsNum(x) THEN x
    ELSE LET q == x.v \div Cent
             r == x.v % Cent
         IN  IF 2 * r < Cent THEN Num(q * Cent)
             ELSE IF 2 * r > Cent THEN Num((q + 1) * Cent)
             ELSE IF q % 2 = 0 THEN Num(q * Cent) ELSE Num((q + 1) * Cent)

(***************************************************************************)
(* Strings: invoice numbers are sequences of one-character strings.       *)
(***************************************************************************)
DigitChars == <<"0", "1", "2", "3", "4", "5", "6", "7", "8", "9">>

IsDigit(c) == \E i \in 1..Len(DigitChars) : DigitChars[i] = c

DigitOf(c) == (CHOOSE i \in 1..Len(DigitChars) : DigitChars[i] = c) - 1

\* Code point of the characters that occur in an invoice number.
Ord(c) ==
    IF IsDigit(c) THEN 48 + DigitOf(c)
    ELSE CASE c = "-" -> 45
           [] c = "I" -> 73
           [] c = "N" -> 78
           [] c = "V" -> 86
           [] OTHER -> 0

\* a < b in the binary string order MongoDB sorts by.
RECURSIVE StrLess(_, _)
StrLess(a, b) ==
    IF b = <<>> THEN FALSE
    ELSE IF a = <<>> THEN TRUE
    ELSE IF Ord(Head(a)) # Ord(Head(b)) THEN Ord(Head(a)) < Ord(Head(b))
    ELSE StrLess(Tail(a), Tail(b))

\* s.split("-")
RECURSIVE SplitDash(_)
SplitDash(s) ==
    IF \A i \in 1..Len(s) : s[i] # "-" THEN <<s>>
    ELSE LET i == CHOOSE j \in 1..Len(s) : s[j] = "-" /\ \A k \in 1..(j - 1) : s[k] # "-"
         IN  <<SubSeq(s, 1, i - 1)>> \o SplitDash(SubSeq(s, i + 1, Len(s)))

\* int(s) for a string of decimal digits; -1 stands for ValueError.
RECURSIVE PyInt(_)
PyInt(s) ==
    IF s = <<>> \/ \E i \in 1..Len(s) : ~IsDigit(s[i]) THEN -1
    ELSE IF Len(s) = 1 THEN DigitOf(s[1])
    ELSE 10 * PyInt(SubSeq(s, 1, Len(s) - 1)) + DigitOf(s[Len(s)])

\* str(n) for n >= 0
RECURSIVE Decimal(_)
Decimal(n) ==
    IF n < 10 THEN <<DigitChars[n + 1]>>
    ELSE Decimal(n \div 10) \o <<DigitChars[(n % 10) + 1]>>

RECURSIVE ZeroPad(_, _)
ZeroPad(s, width) == IF Len(s) >= width THEN s ELSE ZeroPad(<<"0">> \o s, width)

\* f"INV-{n:04d}"
FormatInvoiceNumber(n) == <<"I", "N", "V", "-">> \o ZeroPad(Decimal(n), 4)

\* The document find().sort("invoice_number", DESCENDING).limit(1) returns,
\* as its invoice_number; coll is a non-empty collection.
LastInvoiceNumber(coll) ==
    LET nums == {coll[i]["invoice_number"] : i \in DOMAIN coll}
    IN  CHOOSE s \in nums : \A o \in nums : ~StrLess(s, o)

generate_invoice_number(coll) ==
    IF DOMAIN coll = {} THEN FormatInvoiceNumber(1)
    ELSE LET parts == SplitDash(LastInvoiceNumber(coll))
         IN  IF Len(parts) < 2 THEN FormatInvoiceNumber(1)
             ELSE LET num == PyInt(parts[2])
                  IN  IF num < 0 THEN FormatInvoiceNumber(1)
                      ELSE FormatInvoiceNumber(num + 1)

(***************************************************************************)
(* calculate_invoice_total                                                *)
(***************************************************************************)
List(seq) == [t |-> "list", v |-> seq]
NotAList == [t |-> "str", v |-> <<>>]

\* `not items or not isinstance(items, list)`
ItemsInvalid(items) == items.t # "list" \/ items.v = <<>>

\* Faulty variant of SumItems: the subtotal is accumulated before the tax is
\* converted, so an item with a bad tax still counts in the subtotal.
RECURSIVE SumItemsSubtotalFirst(_, _)
SumItemsSubtotalFirst(seq, acc) ==
    IF seq = <<>> THEN acc
    ELSE LET item == Head(seq)
             quantity == PyFloat(Get(item, "quantity", Num(0)), 1)
             unit_price == PyFloat(Get(item, "unit_price", Num(0)), One)
             tax_rate == PyFloat(Get(item, "tax", Num(0)), 1)
             item_subtotal == FMul(quantity, unit_price)
             item_tax == FDiv100(FMul(item_subtotal, tax_rate))
         IN  IF IsErr(quantity) \/ IsErr(unit_price)
             THEN SumItemsSubtotalFirst(Tail(seq), acc)
             ELSE IF IsErr(tax_rate)
             THEN SumItemsSubtotalFirst(Tail(seq),
                           [subtotal |-> FAdd(acc.subtotal, item_subtotal),
                            total_tax |-> acc.total_tax])
             ELSE SumItemsSubtotalFirst(Tail(seq),
                           [subtotal |-> FAdd(acc.subtotal, item_subtotal),
                            total_tax |-> FAdd(acc.total_tax, item_tax)])

\* One pass of the loop body over the items; acc is [subtotal, total_tax].
RECURSIVE SumItems(_, _)
SumItems(seq, acc) ==
    IF seq = <<>> THEN acc
    ELSE LET item == Head(seq)
             quantity == PyFloat(Get(item, "quantity", Num(0)), 1)
             unit_price == PyFloat(Get(item, "unit_price", Num(0)), One)
             tax_rate == PyFloat(Get(item, "tax", Num(0)), 1)
             item_subtotal == FMul(quantity, unit_price)
             item_tax == FDiv100(FMul(item_subtotal, tax_rate))
         IN  IF IsErr(quantity) \/ IsErr(unit_price) \/ IsErr(tax_rate)
             THEN SumItems(Tail(seq), acc)
             ELSE SumItems(Tail(seq),
                           [subtotal |-> FAdd(acc.subtotal, item_subtotal),
                            total_tax |-> FAdd(acc.total_tax, item_tax)])

\* Faulty variant of calculate_invoice_total: GST is charged on the subtotal
\* plus the item tax.
calculate_invoice_total_gst_on_tax(items, gst_rate) ==
    IF ItemsInvalid(items) THEN Num(0)
    ELSE LET acc == SumItems(items.v, [subtotal |-> Num(0), total_tax |-> Num(0)])
             gst_amount == FDiv100(FMul(FAdd(acc.subtotal, acc.total_tax),
                                        PyFloat(gst_rate, 1)))
         IN  Round2(FAdd(FAdd(acc.subtotal, acc.total_tax), gst_amount))

\* Faulty variant of calculate_invoice_total: the total is cut to 2 decimals,
\* not rounded.
calculate_invoice_total_truncated(items, gst_rate) ==
    IF ItemsInvalid(items) THEN Num(0)
    ELSE LET acc == SumItems(items.v, [subtotal |-> Num(0), total_tax |-> Num(0)])
             gst_amount == FDiv100(FMul(acc.subtotal, PyFloat(gst_rate, 1)))
             sum == FAdd(FAdd(acc.subtotal, acc.total_tax), gst_amount)
         IN  IF IsNum(sum) THEN Num((sum.v \div Cent) * Cent) ELSE sum

calculate_invoice_total(items, gst_rate) ==
    IF ItemsInvalid(items) THEN Num(0)
    ELSE LET acc == SumItems(items.v, [subtotal |-> Num(0), total_tax |-> Num(0)])
             gst_amount == FDiv100(FMul(acc.subtotal, PyFloat(gst_rate, 1)))
         IN  Round2(FAdd(FAdd(acc.subtotal, acc.total_tax), gst_amount))

(***************************************************************************)
(* Collections.  A collection is a function from _id to document; the     *)
(* ObjectId of an inserted document is fresh (nextId, nextClientId).      *)
(***************************************************************************)
Insert(coll, id, doc) == [i \in DOMAIN coll \cup {id} |-> IF i = id THEN doc ELSE coll[i]]

Delete(coll, id) == [i \in DOMAIN coll \ {id} |-> coll[i]]

\* Faulty variant of InsertInvoice: the collection has no unique index.
InsertInvoiceNoIndex(coll, id, doc) == [ok |-> TRUE, coll |-> Insert(coll, id, doc)]

\* invoices_collection.insert_one(doc) under the unique index on
\* invoice_number: a duplicate key raises and nothing is inserted.
InsertInvoice(coll, id, doc) ==
    IF \E i \in DOMAIN coll : coll[i]["invoice_number"] = doc["invoice_number"]
    THEN [ok |-> FALSE, coll |-> coll]
    ELSE [ok |-> TRUE, coll |-> Insert(coll, id, doc)]

\* Faulty variant of InsertClient: the collection has no unique index.
InsertClientNoIndex(coll, id, doc) == [ok |-> TRUE, coll |-> Insert(coll, id, doc)]

\* clients_collection.insert_one(doc) under the unique index on email.
InsertClient(coll, id, doc) ==
    IF \E i \in DOMAIN coll : coll[i]["email"] = doc["email"]
    THEN [ok |-> FALSE, coll |-> coll]
    ELSE [ok |-> TRUE, coll |-> Insert(coll, id, doc)]

(***************************************************************************)
(* create_invoice                                                         *)
(***************************************************************************)
\* Faulty variant of invoice_data: the items are not validated.
invoice_data_unvalidated(coll, body, t) ==
    IF DOMAIN body = {} THEN [code |-> 400, doc |-> EmptyDict, calls |-> 0]
    ELSE LET items == Get(body, "items", List(<<>>))
             currency == Get(body, "currency", "INR")
             gst_rate == PyFloat(Get(body, "gst_rate", Num(18)), 1)
         IN  IF IsErr(gst_rate) THEN [code |-> 500, doc |-> EmptyDict, calls |-> 0]
             ELSE [code |-> 201,
                   calls |-> 1,
                   doc |-> SetFields(body,
                      [from |-> Get(body, "from", EmptyDict),
                       for |-> Get(body, "for", EmptyDict),
                       invoice_number |-> generate_invoice_number(coll),
                       total |-> calculate_invoice_total(items, gst_rate),
                       status |-> "unpaid",
                       amount_paid |-> Num(0),
                       currency |-> currency,
                       gst_rate |-> gst_rate,
                       created_at |-> t,
                       updated_at |-> t])]

\* The handler up to insert_one: the status code it is heading for, the
\* invoice_data it inserts and the number of calls of
\* calculate_invoice_total it made; t is datetime.now().
invoice_data(coll, body, t) ==
    IF DOMAIN body = {} THEN [code |-> 400, doc |-> EmptyDict, calls |-> 0]
    ELSE LET items == Get(body, "items", List(<<>>))
         IN  IF ItemsInvalid(items) THEN [code |-> 400, doc |-> EmptyDict, calls |-> 0]
             ELSE LET currency == Get(body, "currency", "INR")
                      gst_rate == PyFloat(Get(body, "gst_rate", Num(18)), 1)
                  IN  IF IsErr(gst_rate) THEN [code |-> 500, doc |-> EmptyDict, calls |-> 0]
                      ELSE [code |-> 201,
                            calls |-> 1,
                            doc |-> SetFields(body,
                               [from |-> Get(body, "from", EmptyDict),
                                for |-> Get(body, "for", EmptyDict),
                                invoice_number |-> generate_invoice_number(coll),
                                total |-> calculate_invoice_total(items, gst_rate),
                                status |-> "unpaid",
                                amount_paid |-> Num(0),
                                currency |-> currency,
                                gst_rate |-> gst_rate,
                                created_at |-> t,
                                updated_at |-> t])]

\* The whole handler on the collection coll; id is the ObjectId insert_one
\* assigns.  An exception (a duplicate key) is answered with 500.
create_invoice(coll, id, body, t) ==
    LET r == invoice_data(coll, body, t)
        ins == InsertInvoice(coll, id, r.doc)
    IN  IF r.code # 201 THEN [code |-> r.code, coll |-> coll]
        ELSE IF ~ins.ok THEN [code |-> 500, coll |-> coll]
        ELSE [code |-> 201, coll |-> ins.coll]

(***************************************************************************)
(* update_invoice                                                         *)
(***************************************************************************)
\* The handler up to update_one, for the invoice it found: the status code,
\* the update_data it passes to $set and the number of calls of
\* calculate_invoice_total it made.
update_data(invoice, body, t) ==
    LET items == Get(body, "items", List(<<>>))
    IN  IF ItemsInvalid(items) THEN [code |-> 400, set |-> EmptyDict, calls |-> 0]
        ELSE LET currency == Get(body, "currency", Get(invoice, "currency", "INR"))
                 gst_rate == PyFloat(Get(body, "gst_rate",
                                         Get(invoice, "gst_rate", Num(18))), 1)
                 d1 == SetFields(body,
                          [from |-> Get(body, "from", EmptyDict),
                           for |-> Get(body, "for", EmptyDict),
                           total |-> calculate_invoice_total(items, gst_rate),
                           currency |-> currency,
                           gst_rate |-> gst_rate,
                           updated_at |-> t])
                 d2 == IF "amount_paid" \in DOMAIN d1 THEN d1
                       ELSE SetFields(d1, [amount_paid |-> Get(invoice, "amount_paid", Num(0))])
                 d3 == IF "status" \in DOMAIN d2 THEN d2
                       ELSE SetFields(d2, [status |-> Get(invoice, "status", "unpaid")])
             IN  IF IsErr(gst_rate) THEN [code |-> 500, set |-> EmptyDict, calls |-> 0]
                 ELSE [code |-> 200,
                       calls |-> 1,
                       set |-> Pop(Pop(Pop(Pop(d3, "_id"), "id"),
                                       "invoice_number"), "created_at")]

\* Faulty variant of update_invoice: total is left out of the update.
update_invoice_keeps_total(coll, id, body, t) ==
    IF DOMAIN body = {} THEN [code |-> 400, coll |-> coll]
    ELSE IF id \notin DOMAIN coll THEN [code |-> 404, coll |-> coll]
    ELSE LET r == update_data(coll[id], body, t)
         IN  IF r.code # 200 THEN [code |-> r.code, coll |-> coll]
             ELSE [code |-> 200,
                   coll |-> [coll EXCEPT ![id] = SetFields(@, Pop(r.set, "total"))]]

\* Faulty variant of update_invoice: invoice_number is not removed from update_data.
update_invoice_keeps_number(coll, id, body, t) ==
    IF DOMAIN body = {} THEN [code |-> 400, coll |-> coll]
    ELSE IF id \notin DOMAIN coll THEN [code |-> 404, coll |-> coll]
    ELSE LET r == update_data(coll[id], body, t)
             set == IF "invoice_number" \in DOMAIN body
                    THEN SetFields(r.set, [invoice_number |-> body["invoice_number"]])
                    ELSE r.set
         IN  IF r.code # 200 THEN [code |-> r.code, coll |-> coll]
             ELSE [code |-> 200, coll |-> [coll EXCEPT ![id] = SetFields(@, set)]]

\* The whole handler on the collection coll.
update_invoice(coll, id, body, t) ==
    IF DOMAIN body = {} THEN [code |-> 400, coll |-> coll]
    ELSE IF id \notin DOMAIN coll THEN [code |-> 404, coll |-> coll]
    ELSE LET r == update_data(coll[id], body, t)
         IN  IF r.code # 200 THEN [code |-> r.code, coll |-> coll]
             ELSE [code |-> 200, coll |-> [coll EXCEPT ![id] = SetFields(@, r.set)]]

(***************************************************************************)
(* pay_invoice                                                            *)
(***************************************************************************)
\* Faulty variant of payment_status: > for >= in the first test.
payment_status_strict(new_paid, total) ==
    IF FGt(new_paid, total) THEN "paid"
    ELSE IF FGt(new_paid, Num(0)) THEN "partial"
    ELSE "unpaid"

\* The if/elif/else on new_paid and total.
payment_status(new_paid, total) ==
    IF FGe(new_paid, total) THEN "paid"
    ELSE IF FGt(new_paid, Num(0)) THEN "partial"
    ELSE "unpaid"

\* The handler up to update_one, for the invoice it found: the status code
\* and the fields it passes to $set.
payment_update(invoice, body, t) ==
    LET payment == PyFloat(Get(body, "amount", Num(0)), One)
        current_paid == PyFloat(Get(invoice, "amount_paid", Num(0)), One)
        total == PyFloat(Get(invoice, "total", Num(0)), One)
        new_paid == FAdd(current_paid, payment)
    IN  IF IsErr(payment) THEN [code |-> 400, set |-> EmptyDict]
        ELSE IF FLe(payment, Num(0)) THEN [code |-> 400, set |-> EmptyDict]
        ELSE IF IsErr(current_paid) \/ IsErr(total) THEN [code |-> 500, set |-> EmptyDict]
        ELSE [code |-> 200,
              set |-> [amount_paid |-> Round2(new_paid),
                       status |-> payment_status(new_paid, total),
                       updated_at |-> t]]

\* Faulty variant of pay_invoice: the update also writes created_at.
pay_invoice_sets_created_at(coll, id, body, t) ==
    IF DOMAIN body = {} THEN [code |-> 400, coll |-> coll]
    ELSE IF id \notin DOMAIN coll THEN [code |-> 404, coll |-> coll]
    ELSE LET r == payment_update(coll[id], body, t)
         IN  IF r.code # 200 THEN [code |-> r.code, coll |-> coll]
             ELSE [code |-> 200,
                   coll |-> [coll EXCEPT ![id] =
                                SetFields(@, SetFields(r.set, [created_at |-> t]))]]

\* The whole handler on the collection coll.
pay_invoice(coll, id, body, t) ==
    IF DOMAIN body = {} THEN [code |-> 400, coll |-> coll]
    ELSE IF id \notin DOMAIN coll THEN [code |-> 404, coll |-> coll]
    ELSE LET r == payment_update(coll[id], body, t)
         IN  IF r.code # 200 THEN [code |-> r.code, coll |-> coll]
             ELSE [code |-> 200, coll |-> [coll EXCEPT ![id] = SetFields(@, r.set)]]

\* The whole handler on the collection coll.
delete_invoice(coll, id) ==
    IF id \in DOMAIN coll THEN [code |-> 200, coll |-> Delete(coll, id)]
    ELSE [code |-> 404, coll |-> coll]

(***************************************************************************)
(* add_client                                                             *)
(***************************************************************************)
LowerChar(c) ==
    CASE c = "A" -> "a"
      [] c = "X" -> "x"
      [] OTHER -> c

\* s.lower()
Lower(s) == [i \in 1..Len(s) |-> LowerChar(s[i])]

\* `not client_data.get(k)`: the key is absent or its value is empty.
Falsy(d, k) == k \notin DOMAIN d \/ d[k] = <<>>

client_data(coll, body, t) ==
    IF DOMAIN body = {} THEN [code |-> 400, doc |-> EmptyDict]
    ELSE IF Falsy(body, "name") \/ Falsy(body, "email") THEN [code |-> 400, doc |-> EmptyDict]
    ELSE IF \E i \in DOMAIN coll : coll[i]["email"] = Lower(body["email"])
         THEN [code |-> 400, doc |-> EmptyDict]
    ELSE [code |-> 201,
          doc |-> SetFields(body, [email |-> Lower(body["email"]),
                                   created_at |-> t,
                                   updated_at |-> t])]

\* The whole handler on the collection coll; id is the ObjectId insert_one
\* assigns.
add_client(coll, id, body, t) ==
    LET r == client_data(coll, body, t)
        ins == InsertClient(coll, id, r.doc)
    IN  IF r.code # 201 THEN [code |-> r.code, coll |-> coll]
        ELSE IF ~ins.ok THEN [code |-> 500, coll |-> coll]
        ELSE [code |-> 201, coll |-> ins.coll]

(***************************************************************************)
(* Identifiers.  The _id of a stored document is an ObjectId; the          *)
(* collections of the model are keyed by the number n of ObjectId n.       *)
(* JSON has no ObjectId: a request names ObjectId n by its 24-digit hex    *)
(* string, OidStr(n), which is what serialize_doc returns as "id".  A      *)
(* document may also carry a custom integer "id" field, IntId(k).          *)
(***************************************************************************)
Oid(n) == [t |-> "oid", v |-> n]
OidStr(n) == [t |-> "oidstr", v |-> n]
IntId(k) == [t |-> "int", v |-> k]
\* A <client_id> of the URL that is a decimal string.
DigitStr(k) == [t |-> "digits", v |-> k]
\* A <client_id> of the URL that is neither.
BadStr == [t |-> "bad", v |-> 0]

\* No document: find_one returned None.
None == -1

\* The `find client` block of update_client and delete_client: the _id of
\* the client find_one returns (None when there is none), the filter and the
\* search_id; int() of a string that is no number raises (code 500).
find_client(coll, client_id) ==
    CASE client_id.t = "oidstr" ->
           [code |-> 200,
            id |-> IF client_id.v \in DOMAIN coll THEN client_id.v ELSE None,
            filter |-> [_id |-> Oid(client_id.v)],
            search_id |-> IF client_id.v \in DOMAIN coll THEN Oid(client_id.v) ELSE NullVal]
      [] client_id.t = "digits" ->
           LET found == {i \in DOMAIN coll : Get(coll[i], "id", NullVal) = IntId(client_id.v)}
           IN  [code |-> 200,
                id |-> IF found = {} THEN None
                       ELSE CHOOSE i \in found : \A j \in found : i <= j,
                filter |-> [id |-> IntId(client_id.v)],
                search_id |-> IntId(client_id.v)]
      [] OTHER -> [code |-> 500, id |-> None, filter |-> EmptyDict, search_id |-> NullVal]

\* The _id of the document find_one(filter) returns, None when there is none.
find_one(coll, filter) ==
    LET found == {i \in DOMAIN coll :
                     \/ "_id" \in DOMAIN filter /\ filter["_id"] = Oid(i)
                     \/ "id" \in DOMAIN filter /\ Get(coll[i], "id", NullVal) = filter["id"]}
    IN  IF found = {} THEN None ELSE CHOOSE i \in found : \A j \in found : i <= j

(***************************************************************************)
(* update_client                                                          *)
(***************************************************************************)
\* The handler up to update_one: the status code it is heading for, the
\* client_filter and the update_data it passes to $set.
client_update(coll, client_id, body, t) ==
    LET f == find_client(coll, client_id)
        fail(code) == [code |-> code, filter |-> EmptyDict, set |-> EmptyDict]
    IN  IF DOMAIN body = {} THEN fail(400)
        ELSE IF f.code # 200 THEN fail(f.code)
        ELSE IF f.id = None THEN fail(404)
        ELSE IF Falsy(body, "name") \/ Falsy(body, "email") THEN fail(400)
        ELSE IF \E i \in DOMAIN coll : i # f.id /\ coll[i]["email"] = Lower(body["email"])
             THEN fail(400)
        ELSE [code |-> 200,
              filter |-> f.filter,
              set |-> Pop(Pop(Pop(SetFields(body, [email |-> Lower(body["email"]),
                                                   updated_at |-> t]),
                                  "_id"), "id"), "created_at")]

\* clients_collection.update_one(filter, {'$set': set}) under the unique
\* index on email, and the status code that follows: no match is 404, a
\* duplicate key raises (500) and nothing is written.
UpdateOneClient(coll, filter, set) ==
    LET id == find_one(coll, filter)
    IN  IF id = None THEN [code |-> 404, coll |-> coll]
        ELSE IF "email" \in DOMAIN set
                /\ \E i \in DOMAIN coll : i # id /\ coll[i]["email"] = set["email"]
             THEN [code |-> 500, coll |-> coll]
        ELSE [code |-> 200, coll |-> [coll EXCEPT ![id] = SetFields(@, set)]]

\* The whole handler on the collection coll.
update_client(coll, client_id, body, t) ==
    LET r == client_update(coll, client_id, body, t)
    IN  IF r.code # 200 THEN [code |-> r.code, coll |-> coll]
        ELSE UpdateOneClient(coll, r.filter, r.set)

(***************************************************************************)
(* bulk_create_clients                                                    *)
(***************************************************************************)
\* s.strip() for the blank the model's strings hold.
RECURSIVE Strip(_)
Strip(s) ==
    IF s = <<>> THEN s
    ELSE IF Head(s) = " " THEN Strip(Tail(s))
    ELSE IF s[Len(s)] = " " THEN Strip(SubSeq(s, 1, Len(s) - 1))
    ELSE s

\* The set the handler fills from clients_collection.find({}, {'email': 1}).
existing_emails(coll) == {Lower(Get(coll[i], "email", <<>>)) : i \in DOMAIN coll}

\* The loop over the rows: the clean_data of the rows that pass, in order;
\* seen is existing_emails as the loop grows it.
RECURSIVE clients_to_insert(_, _, _)
clients_to_insert(rows, seen, t) ==
    IF rows = <<>> THEN <<>>
    ELSE LET row == Head(rows)
             email == Lower(Get(row, "email", <<>>))
         IN  IF Falsy(row, "name") \/ Falsy(row, "email")
             THEN clients_to_insert(Tail(rows), seen, t)
             ELSE IF email \in seen THEN clients_to_insert(Tail(rows), seen, t)
             ELSE <<[name |-> Strip(Get(row, "name", <<>>)),
                     email |-> email,
                     phone |-> Strip(Get(row, "phone", <<>>)),
                     company |-> Strip(Get(row, "company", <<>>)),
                     billing_address |-> Strip(Get(row, "billing_address", <<>>)),
                     actual_address |-> Strip(Get(row, "actual_address", <<>>)),
                     notes |-> Strip(Get(row, "notes", <<>>)),
                     created_at |-> t,
                     updated_at |-> t]>>
                  \o clients_to_insert(Tail(rows), seen \cup {email}, t)

\* clients_collection.insert_many(docs), ordered: the documents are inserted
\* one after the other and the first duplicate key stops it and raises; id is
\* the ObjectId of the first document.
RECURSIVE insert_many(_, _, _)
insert_many(coll, id, docs) ==
    IF docs = <<>> THEN [ok |-> TRUE, coll |-> coll, next |-> id]
    ELSE LET ins == InsertClient(coll, id, Head(docs))
         IN  IF ~ins.ok THEN [ok |-> FALSE, coll |-> coll, next |-> id]
             ELSE insert_many(ins.coll, id + 1, Tail(docs))

\* The handler up to insert_many: the status code it is heading for and
\* clients_to_insert; rows is the JSON list of the request.
bulk_data(coll, rows, t) ==
    IF rows = <<>> THEN [code |-> 400, docs |-> <<>>]
    ELSE [code |-> 200, docs |-> clients_to_insert(rows, existing_emails(coll), t)]

\* The whole handler on the collection coll; next is the ObjectId the next
\* insert assigns.
bulk_create_clients(coll, id, rows, t) ==
    LET r == bulk_data(coll, rows, t)
        ins == insert_many(coll, id, r.docs)
    IN  IF r.code # 200 THEN [code |-> r.code, coll |-> coll, next |-> id]
        ELSE IF ~ins.ok THEN [code |-> 500, coll |-> ins.coll, next |-> ins.next]
        ELSE [code |-> 200, coll |-> ins.coll, next |-> ins.next]

(***************************************************************************)
(* migrate_json_to_mongodb (migrate_to_mongodb.py)                        *)
(***************************************************************************)
\* The loop over clients_data: unique_clients, in order.  A client is kept
\* as the file has it, with created_at and updated_at set where absent.
RECURSIVE unique_clients(_, _, _)
unique_clients(clients_data, emails_seen, t) ==
    IF clients_data = <<>> THEN <<>>
    ELSE LET client == Head(clients_data)
             email == Lower(Get(client, "email", <<>>))
         IN  IF email = <<>> THEN unique_clients(Tail(clients_data), emails_seen, t)
             ELSE IF email \in emails_seen
                  THEN unique_clients(Tail(clients_data), emails_seen, t)
             ELSE <<SetFields([created_at |-> t, updated_at |-> t], client)>>
                  \o unique_clients(Tail(clients_data), emails_seen \cup {email}, t)

\* insert_many into the collection just dropped, which has no index yet.
RECURSIVE InsertAll(_, _, _)
InsertAll(coll, id, docs) ==
    IF docs = <<>> THEN [coll |-> coll, next |-> id]
    ELSE InsertAll(Insert(coll, id, Head(docs)), id + 1, Tail(docs))

\* The client part of the script: the new clients collection for the
\* clients.json clients_data; id is the ObjectId of the first insert.
migrate_json_to_mongodb(clients_data, id, t) ==
    InsertAll(EmptyDict, id, unique_clients(clients_data, {}, t))

(***************************************************************************)
(* delete_client                                                          *)
(***************************************************************************)
\* invoices_collection.find({'for.id': search_id}): the _ids of the invoices
\* whose for.id equals search_id, in type and value.
client_invoices(invs, search_id) ==
    {i \in DOMAIN invs :
        /\ "for" \in DOMAIN invs[i]
        /\ "id" \in DOMAIN invs[i]["for"]
        /\ invs[i]["for"]["id"] = search_id}

\* The handler up to delete_one: the status code it is heading for and the
\* client_filter.
delete_check(coll, invs, client_id) ==
    LET f == find_client(coll, client_id)
    IN  IF f.code # 200 THEN [code |-> f.code, filter |-> EmptyDict]
        ELSE IF f.id = None THEN [code |-> 404, filter |-> EmptyDict]
        ELSE IF client_invoices(invs, f.search_id) # {} THEN [code |-> 400, filter |-> EmptyDict]
        ELSE [code |-> 200, filter |-> f.filter]

\* clients_collection.delete_one(filter) and the status code that follows.
DeleteOneClient(coll, filter) ==
    LET id == find_one(coll, filter)
    IN  IF id = None THEN [code |-> 404, coll |-> coll]
        ELSE [code |-> 200, coll |-> Delete(coll, id)]

\* The whole handler on the collections coll (clients) and invs (invoices).
delete_client(coll, invs, client_id) ==
    LET r == delete_check(coll, invs, client_id)
    IN  IF r.code # 200 THEN [code |-> r.code, coll |-> coll]
        ELSE DeleteOneClient(coll, r.filter)

\* The `load client data` block of the invoice PDF route: the _id of the
\* client an invoice's for.id names, None when it names none.  A valid
\* ObjectId string is looked up as _id, anything else through int() as "id".
referenced_client(coll, invoice) ==
    IF "for" \notin DOMAIN invoice \/ "id" \notin DOMAIN invoice["for"] THEN None
    ELSE LET client_id == invoice["for"]["id"]
         IN  CASE client_id.t = "oidstr" ->
                    IF client_id.v \in DOMAIN coll THEN client_id.v ELSE None
               [] client_id.t = "int" -> find_one(coll, [id |-> client_id])
               [] OTHER -> None

(***************************************************************************)
(* reports_summary                                                        *)
(***************************************************************************)
FNeg(a) == IF IsNum(a) THEN Num(-a.v) ELSE NaN

\* n / d rounded to the nearest integer, an exact tie to the even one; d > 0.
RoundHalfEvenDiv(n, d) ==
    LET q == n \div d
        r == n % d
    IN  IF 2 * r < d THEN q
        ELSE IF 2 * r > d THEN q + 1
        ELSE IF q % 2 = 0 THEN q ELSE q + 1

\* round(a / n, 2) for a count n > 0.
RoundedAverage(a, n) == IF IsNum(a) THEN Num(RoundHalfEvenDiv(a.v, n * Cent) * Cent) ELSE NaN

\* Long division: the quotient q and the remainder r of n * 10^digits by d,
\* for d > 0, one decimal digit at a time.
RECURSIVE LongDiv(_, _, _)
LongDiv(n, d, digits) ==
    IF digits = 0 THEN [q |-> n \div d, r |-> n % d]
    ELSE LET p == LongDiv(n, d, digits - 1)
         IN  [q |-> 10 * p.q + (10 * p.r) \div d, r |-> (10 * p.r) % d]

\* round(a / b * 100, 2) for b > 0, in the unit of the money fields.
RoundedPercent(a, b) ==
    IF IsNum(a) /\ IsNum(b)
    THEN LET p == LongDiv(a.v, b.v, 4)
             cents == IF 2 * p.r < b.v THEN p.q
                      ELSE IF 2 * p.r > b.v THEN p.q + 1
                      ELSE IF p.q % 2 = 0 THEN p.q ELSE p.q + 1
         IN  Num(cents * Cent)
    ELSE NaN

\* list(collection.find()): the documents in the order of their _id.
RECURSIVE IdsInOrder(_)
IdsInOrder(ids) ==
    IF ids = {} THEN <<>>
    ELSE LET m == CHOOSE x \in ids : \A y \in ids : x <= y
         IN  <<m>> \o IdsInOrder(ids \ {m})

\* d[k] += x on a defaultdict(float).
AddTo(d, k, x) ==
    [j \in DOMAIN d \cup {k} |-> IF j = k THEN FAdd(Get(d, k, Num(0)), x) ELSE d[j]]

\* `if client_id:` for the for.id of an invoice.
TruthyId(client_id) == client_id.t \in {"oidstr", "oid"} \/ (client_id.t = "int" /\ client_id.v # 0)

\* invoice_date[:7]
MonthKey(date) == SubSeq(date, 1, IF Len(date) < 7 THEN Len(date) ELSE 7)

\* A JSON value that is not an object: it has no .get.
NotADict(x) == "t" \in DOMAIN x

\* The loop over the invoices; ids is the rest of the _ids, in order.
\* client_order is the order in which client_revenue got its keys.  raised
\* is TRUE once inv.get("for", {}).get("id") met a "for" that is not an
\* object: the AttributeError is not caught in the loop and ends it.
RECURSIVE SummaryLoop(_, _, _)
SummaryLoop(invs, ids, acc) ==
    IF ids = <<>> \/ acc.raised THEN acc
    ELSE LET inv == invs[Head(ids)]
             invoice_total == PyFloat(Get(inv, "total", Num(0)), One)
             amount_paid == PyFloat(Get(inv, "amount_paid", Num(0)), One)
             status == Get(inv, "status", "unpaid")
             for == Get(inv, "for", EmptyDict)
             client_id == Get(for, "id", NullVal)
             invoice_date == Get(inv, "date", <<>>)
         IN  IF IsErr(invoice_total) \/ IsErr(amount_paid)
             THEN SummaryLoop(invs, Tail(ids), acc)
             ELSE IF NotADict(for) THEN [acc EXCEPT !.raised = TRUE]
             ELSE SummaryLoop(invs, Tail(ids),
                    [raised |-> FALSE,
                     total_invoiced |-> FAdd(acc.total_invoiced, invoice_total),
                     total_paid |-> FAdd(acc.total_paid, amount_paid),
                     status_breakdown |->
                        IF status \in DOMAIN acc.status_breakdown
                        THEN [acc.status_breakdown EXCEPT ![status] = @ + 1]
                        ELSE acc.status_breakdown,
                     client_revenue |->
                        IF TruthyId(client_id)
                        THEN AddTo(acc.client_revenue, client_id, invoice_total)
                        ELSE acc.client_revenue,
                     client_order |->
                        IF TruthyId(client_id) /\ client_id \notin DOMAIN acc.client_revenue
                        THEN Append(acc.client_order, client_id)
                        ELSE acc.client_order,
                     monthly_data |->
                        IF invoice_date # <<>>
                        THEN AddTo(acc.monthly_data, MonthKey(invoice_date), invoice_total)
                        ELSE acc.monthly_data])

\* The key of a client in client_dict: c.get("id", c.get("_id")).
ClientKey(cls, i) == Get(cls[i], "id", Oid(i))

\* client_dict[client_id]: the last client, in order, with that key.
ClientOfKey(cls, key) ==
    LET found == {i \in DOMAIN cls : ClientKey(cls, i) = key}
    IN  cls[CHOOSE i \in found : \A j \in found : j <= i]

\* list.sort(key=revenue, reverse=True): stable, so an entry goes behind
\* those whose revenue is not smaller.
RECURSIVE InsertByRevenue(_, _)
InsertByRevenue(sorted, e) ==
    IF sorted = <<>> THEN <<e>>
    ELSE IF Head(sorted).revenue.v >= e.revenue.v
         THEN <<Head(sorted)>> \o InsertByRevenue(Tail(sorted), e)
         ELSE <<e>> \o sorted

RECURSIVE SortByRevenue(_, _)
SortByRevenue(entries, sorted) ==
    IF entries = <<>> THEN sorted
    ELSE SortByRevenue(Tail(entries), InsertByRevenue(sorted, Head(entries)))

\* The top_clients list before it is sorted.
RECURSIVE TopClientEntries(_, _, _)
TopClientEntries(order, revenue, cls) ==
    IF order = <<>> THEN <<>>
    ELSE LET client_id == Head(order)
             rest == TopClientEntries(Tail(order), revenue, cls)
         IN  IF FGt(revenue[client_id], Num(0))
                /\ \E i \in DOMAIN cls : ClientKey(cls, i) = client_id
             THEN <<[id |-> client_id,
                     name |-> Get(ClientOfKey(cls, client_id), "name", <<>>),
                     email |-> Get(ClientOfKey(cls, client_id), "email", <<>>),
                     revenue |-> Round2(revenue[client_id])]>> \o rest
             ELSE rest

\* sorted(monthly_data.items()): the keys in ascending string order.
RECURSIVE KeysInOrder(_)
KeysInOrder(keys) ==
    IF keys = {} THEN <<>>
    ELSE LET m == CHOOSE x \in keys : \A y \in keys \ {x} : StrLess(x, y)
         IN  <<m>> \o KeysInOrder(keys \ {m})

\* Faulty variant of MonthLabel: a key that strptime rejects gets a label
\* too.
MonthLabel_unchecked(month) ==
    LET parts == SplitDash(month \o <<"-", "0", "1">>)
    IN  [ok |-> TRUE,
         month |-> IF Len(parts) >= 2 THEN PyInt(parts[2]) ELSE -1,
         year |-> PyInt(parts[1])]

\* datetime.strptime(month + "-01", "%Y-%m-%d").strftime("%B %Y"): the month
\* and the year of the label; ok is FALSE where strptime raises ValueError.
MonthLabel(month) ==
    LET parts == SplitDash(month \o <<"-", "0", "1">>)
        y == IF Len(parts) = 3 THEN PyInt(parts[1]) ELSE -1
        m == IF Len(parts) = 3 THEN PyInt(parts[2]) ELSE -1
    IN  IF /\ Len(parts) = 3
           /\ Len(parts[1]) = 4 /\ y >= 1
           /\ Len(parts[2]) \in {1, 2} /\ m \in 1..12
        THEN [ok |-> TRUE, month |-> m, year |-> y]
        ELSE [ok |-> FALSE, month |-> 0, year |-> 0]

RECURSIVE MonthlyList(_, _)
MonthlyList(keys, monthly_data) ==
    IF keys = <<>> THEN <<>>
    ELSE LET label == MonthLabel(Head(keys))
             rest == MonthlyList(Tail(keys), monthly_data)
         IN  IF label.ok
             THEN <<[month |-> [month |-> label.month, year |-> label.year],
                     amount |-> Round2(monthly_data[Head(keys)])]>> \o rest
             ELSE rest

\* s[:n] and s[-n:]
FirstN(s, n) == SubSeq(s, 1, IF Len(s) < n THEN Len(s) ELSE n)
LastN(s, n) == SubSeq(s, IF Len(s) < n THEN 1 ELSE Len(s) - n + 1, Len(s))

\* Faulty variant of reports_summary_data: the collection rate of nothing
\* invoiced is 100.
reports_summary_data_full_rate(total_invoiced, total_paid, invoice_count) ==
    LET out == FAdd(total_invoiced, FNeg(total_paid))
    IN  [total_invoiced |-> Round2(total_invoiced),
         total_paid |-> Round2(total_paid),
         total_outstanding |-> Round2(out),
         average_invoice |-> IF invoice_count # 0
                             THEN RoundedAverage(total_invoiced, invoice_count)
                             ELSE Num(0),
         collection_rate |-> IF FGt(total_invoiced, Num(0))
                             THEN RoundedPercent(total_paid, total_invoiced)
                             ELSE Num(100 * One)]

\* The monetary fields of the "data" of the response.
reports_summary_data(total_invoiced, total_paid, invoice_count) ==
    LET total_outstanding == FAdd(total_invoiced, FNeg(total_paid))
    IN  [total_invoiced |-> Round2(total_invoiced),
         total_paid |-> Round2(total_paid),
         total_outstanding |-> Round2(total_outstanding),
         average_invoice |-> IF invoice_count # 0
                             THEN RoundedAverage(total_invoiced, invoice_count)
                             ELSE Num(0),
         collection_rate |-> IF FGt(total_invoiced, Num(0))
                             THEN RoundedPercent(total_paid, total_invoiced)
                             ELSE Num(0)]

\* The whole handler on the collections invs (invoices) and cls (clients):
\* the status code and the "data" of the response.  An exception that
\* leaves the loop is answered with 500.
reports_summary(invs, cls) ==
    LET acc == SummaryLoop(invs, IdsInOrder(DOMAIN invs),
                  [raised |-> FALSE,
                   total_invoiced |-> Num(0),
                   total_paid |-> Num(0),
                   status_breakdown |-> [paid |-> 0, partial |-> 0, unpaid |-> 0],
                   client_revenue |-> EmptyDict,
                   client_order |-> <<>>,
                   monthly_data |-> EmptyDict])
        money == reports_summary_data(acc.total_invoiced, acc.total_paid,
                                      Cardinality(DOMAIN invs))
        top_clients == SortByRevenue(
                          TopClientEntries(acc.client_order, acc.client_revenue, cls), <<>>)
        monthly_list == MonthlyList(KeysInOrder(DOMAIN acc.monthly_data), acc.monthly_data)
    IN  IF acc.raised THEN [code |-> 500]
        ELSE
        [code |-> 200,
         total_invoiced |-> money.total_invoiced,
         total_paid |-> money.total_paid,
         total_outstanding |-> money.total_outstanding,
         invoice_count |-> Cardinality(DOMAIN invs),
         client_count |-> Cardinality(DOMAIN cls),
         status_breakdown |-> acc.status_breakdown,
         top_clients |-> FirstN(top_clients, 5),
         monthly_data |-> LastN(monthly_list, 6),
         average_invoice |-> money.average_invoice,
         collection_rate |-> money.collection_rate]

(***************************************************************************)
(* Request inputs.                                                        *)
(***************************************************************************)
ItemA == [description |-> "A", quantity |-> Num(2), unit_price |-> Num(100 * One),
          tax |-> Num(10)]
ItemC == [quantity |-> Num(1), unit_price |-> Num(33 * Cent), tax |-> Num(10)]
ItemZ == [quantity |-> Num(0), unit_price |-> Num(One), tax |-> Num(0)]
ItemN == [quantity |-> Num(-1), unit_price |-> Num(100 * One), tax |-> Num(0)]

OtherNumber == <<"I", "N", "V", "-", "7", "7", "7", "7">>

CreateBodies ==
    { EmptyDict,
      [currency |-> "USD"],
      [items |-> NotAList, gst_rate |-> Num(5)],
      [items |-> List(<<>>)],
      [items |-> List(<<ItemA>>)],
      [items |-> List(<<ItemA>>), gst_rate |-> StrVal],
      [items |-> List(<<ItemC>>), gst_rate |-> Num(18), currency |-> "USD",
       for |-> [id |-> IntId(1)]],
      [items |-> List(<<ItemZ>>), gst_rate |-> Num(0), invoice_number |-> OtherNumber,
       status |-> "paid", amount_paid |-> Num(5 * One), total |-> Num(One)] }

UpdateBodies ==
    { EmptyDict,
      [currency |-> "EUR"],
      [items |-> NotAList],
      [items |-> List(<<>>), status |-> "paid"],
      [items |-> List(<<ItemA, ItemA>>)],
      [items |-> List(<<ItemA>>), gst_rate |-> NullVal],
      [items |-> List(<<ItemZ>>), amount_paid |-> Num(-100 * One)],
      [items |-> List(<<ItemN, ItemC>>), gst_rate |-> Num(0), from |-> [name |-> "Seller"],
       status |-> "paid", invoice_number |-> OtherNumber, created_at |-> 0,
       total |-> Num(One), currency |-> "EUR"] }

PayBodies ==
    { EmptyDict,
      [note |-> "cash"],
      [amount |-> Num(0)],
      [amount |-> Num(-5 * One)],
      [amount |-> StrVal],
      [amount |-> NullVal],
      [amount |-> BoolVal(TRUE)],
      [amount |-> NanStr],
      [amount |-> Num(40)],
      [amount |-> Num(100 * One)],
      [amount |-> Num(156 * One)] }

ClientBodies ==
    { EmptyDict,
      [name |-> <<"A">>],
      [name |-> <<"A">>, email |-> <<"a", "@", "x">>],
      [name |-> <<"B">>, email |-> <<"A", "@", "X">>] }

\* The ids requests name: those insert_one assigns, and 0, which only the
\* seeded collection holds.
\* The bodies of the concurrent create_invoice requests.
ConcCreateBodies == {EmptyDict, [items |-> List(<<ItemA>>)]}

\* The bodies, the <client_id>s and the row lists of the concurrent client
\* requests.
EmailA == <<"a", "@", "x">>
EmailAUpper == <<"A", "@", "X">>
EmailB == <<"b", "@", "x">>

ConcClientBodies ==
    { [name |-> <<"A">>],
      [name |-> <<"A">>, email |-> EmailA],
      [name |-> <<"B">>, email |-> EmailAUpper, created_at |-> 0],
      [name |-> <<"C">>, email |-> EmailB, id |-> IntId(5)] }

ClientUrlIds == {OidStr(1), OidStr(2), DigitStr(5), BadStr}

RowA == [name |-> <<"A">>, email |-> EmailAUpper]
RowB == [name |-> <<" ", "B">>, email |-> EmailB, phone |-> <<"1", " ">>]
RowNoName == [email |-> EmailA]

BulkBodies == {<<>>, <<RowA>>, <<RowB, RowA>>, <<RowA, RowNoName, RowB, RowA>>}

\* The clients and the requests of the specification of delete_client: a
\* client known by its ObjectId and one that carries a custom integer id,
\* and invoice bodies that name one of them, or none, in for.id.
RefClients ==
    LET one == add_client(EmptyDict, 1, [name |-> <<"A">>, email |-> EmailA], 0).coll
    IN  add_client(one, 2, [name |-> <<"C">>, email |-> EmailB, id |-> IntId(5)], 0).coll

RefInvoiceBodies ==
    { [items |-> List(<<ItemA>>)],
      [items |-> List(<<ItemA>>), for |-> [id |-> OidStr(1), name |-> <<"A">>]],
      [items |-> List(<<ItemA>>), for |-> [id |-> IntId(5)]] }

RefUrlIds == {OidStr(1), OidStr(2), DigitStr(5), DigitStr(6), BadStr}

\* The arguments of the calls of calculate_invoice_total: item lists of at
\* most MaxItems items, among them items with one field that float() rejects
\* and an item with no numeric field at all, GST rates and scaling factors.
MaxItems == 2

BadQuantity == [quantity |-> StrVal, unit_price |-> Num(100 * One), tax |-> Num(10)]
BadPrice == [quantity |-> Num(2), unit_price |-> NullVal, tax |-> Num(10)]
BadTax == [quantity |-> Num(2), unit_price |-> Num(100 * One), tax |-> StrVal]
ItemBare == [description |-> "B"]

TotalsItems == {ItemA, ItemC, ItemN, ItemBare, BadQuantity, BadPrice, BadTax}

TotalsItemLists ==
    {NotAList} \cup {List(seq) : seq \in UNION {[1..n -> TotalsItems] : n \in 0..MaxItems}}

TotalsGstRates == {Num(0), Num(5), Num(18)}

Factors == {-1, 0, 2, 3}

\* The collections reports_summary is called on: those that up to two
\* create_invoice requests, each followed by at most one pay_invoice request,
\* leave behind, next to no clients or the two clients of RefClients.
Item100 == [quantity |-> Num(1), unit_price |-> Num(100 * One), tax |-> Num(0)]

DateMarch == <<"2", "0", "2", "4", "-", "0", "3", "-", "1", "5">>
DateShort == <<"2", "0", "2", "4", "-", "1">>

ReportCreateBodies ==
    { [items |-> List(<<ItemA>>)],
      [items |-> List(<<Item100>>), gst_rate |-> Num(0), for |-> [id |-> OidStr(1)],
       date |-> DateMarch],
      [items |-> List(<<ItemN>>), gst_rate |-> Num(0), for |-> [id |-> IntId(5)],
       date |-> DateShort],
      [items |-> List(<<ItemC>>), for |-> [id |-> IntId(5)], date |-> DateMarch],
      [items |-> List(<<ItemA>>), gst_rate |-> NanStr] }

ReportPayBodies ==
    { EmptyDict,
      [amount |-> Num(40)],
      [amount |-> Num(40 * One)],
      [amount |-> Num(256 * One)],
      [amount |-> NanStr] }

\* coll after a create_invoice request with body and a pay_invoice request
\* for the new invoice with pay (no payment when pay is empty).
WithInvoice(coll, id, body, pay, t) ==
    pay_invoice(create_invoice(coll, id, body, t).coll, id, pay, t + 1).coll

ReportInvoices ==
    LET one == {WithInvoice(EmptyDict, 1, b, p, 1) :
                   b \in ReportCreateBodies, p \in ReportPayBodies}
    IN  {EmptyDict} \cup one
        \cup UNION {{WithInvoice(c, 2, b, p, 3) :
                        b \in ReportCreateBodies, p \in ReportPayBodies} : c \in one}

\* Bodies of update_invoice requests that leave an invoice with another
\* status, amount_paid, "for" or date.
DateApril == <<"2", "0", "2", "4", "-", "0", "4", "-", "0", "1">>
DateBadMonth == <<"2", "0", "2", "4", "-", "1", "3", "-", "0", "1">>
DateText == <<"M", "a", "r", "c", "h", " ", "5">>

ReportUpdateBodies ==
    { [items |-> List(<<ItemA>>), status |-> "draft"],
      [items |-> List(<<ItemA>>), status |-> "paid", amount_paid |-> Num(256 * One),
       for |-> [name |-> <<"N">>], date |-> DateMarch],
      [items |-> List(<<ItemA>>), status |-> "paid", amount_paid |-> StrVal,
       for |-> [id |-> IntId(5)], date |-> DateMarch],
      [items |-> List(<<ItemA>>), for |-> NullVal, date |-> DateApril],
      [items |-> List(<<Item100>>), gst_rate |-> Num(0), for |-> [id |-> IntId(5)],
       date |-> DateBadMonth],
      [items |-> List(<<Item100>>), gst_rate |-> Num(0), for |-> [id |-> IntId(5)],
       date |-> <<>>, status |-> "partial", amount_paid |-> Num(40 * One)],
      [items |-> List(<<Item100>>), gst_rate |-> Num(0), for |-> EmptyDict,
       date |-> DateApril],
      [items |-> List(<<ItemC>>), for |-> [id |-> OidStr(1)], date |-> DateText,
       status |-> "draft", amount_paid |-> Num(42 * Cent)] }

\* coll after a create_invoice request and an update_invoice request with
\* body for the new invoice.
WithUpdated(coll, id, body, t) ==
    update_invoice(create_invoice(coll, id, [items |-> List(<<ItemA>>)], t).coll,
                   id, body, t + 1).coll

ReportUpdated ==
    LET one == {WithUpdated(EmptyDict, 1, u, 1) : u \in ReportUpdateBodies}
    IN  one \cup UNION {{WithUpdated(c, 2, u, 3) : u \in ReportUpdateBodies} : c \in one}

\* A roster of seven clients with a custom integer id each, and nine
\* invoices for them over nine months: revenues tie, one client has a
\* negative revenue and one invoice names a client that is not stored.
RosterBody(k) == [name |-> <<"C", DigitChars[k + 1]>>,
                  email |-> <<"c", DigitChars[k + 1], "@", "x">>,
                  id |-> IntId(k)]

RECURSIVE AddAll(_, _, _)
AddAll(coll, id, bodies) ==
    IF bodies = <<>> THEN coll
    ELSE AddAll(add_client(coll, id, Head(bodies), 0).coll, id + 1, Tail(bodies))

BigRoster == AddAll(EmptyDict, 1, [k \in 1..7 |-> RosterBody(k)])

DateOfMonth(m) == <<"2", "0", "2", "4", "-", "0", DigitChars[m + 1], "-", "1", "5">>

BilledBody(k, quantity, m) ==
    [items |-> List(<<[quantity |-> Num(quantity), unit_price |-> Num(100 * One),
                       tax |-> Num(0)]>>),
     gst_rate |-> Num(0),
     for |-> [id |-> IntId(k)],
     date |-> DateOfMonth(m)]

BilledBodies ==
    << BilledBody(3, 2, 9), BilledBody(1, 1, 2), BilledBody(2, 2, 3),
       BilledBody(4, 3, 1), BilledBody(5, 1, 5), BilledBody(6, 1, 6),
       BilledBody(1, 1, 7), BilledBody(7, -1, 8), BilledBody(9, 5, 4) >>

RECURSIVE CreateAll(_, _, _, _)
CreateAll(coll, id, bodies, t) ==
    IF bodies = <<>> THEN coll
    ELSE CreateAll(create_invoice(coll, id, Head(bodies), t).coll, id + 1,
                   Tail(bodies), t + 1)

ReportBilled ==
    {CreateAll(EmptyDict, 1, SubSeq(BilledBodies, 1, n), 1) : n \in 1..Len(BilledBodies)}
    \cup {CreateAll(EmptyDict, 1,
                    Append(BilledBodies, [items |-> List(<<ItemA>>),
                                          for |-> [id |-> IntId(6)],
                                          date |-> d]), 1) :
              d \in {DateText, DateBadMonth, <<>>}}

InvoiceIds == 1..MaxInvoices
ConcInvoiceIds == 0..MaxInvoices

\* No call of calculate_invoice_total or reports_summary has been made.
NoCall == [op |-> "none"]

(***************************************************************************)
(* Requests served one at a time.                                         *)
(***************************************************************************)
Init ==
    /\ invoices = EmptyDict
    /\ clients = EmptyDict
    /\ nextId = 1
    /\ nextClientId = 1
    /\ now = 1
    /\ inflight = {}
    /\ pending = {}
    /\ call = NoCall

\* Each action is one request: the handler's result replaces the collection.
\* A request that fails leaves the state as it is.  now advances with every
\* request that reads the clock and writes.
CreateInvoice(body) ==
    \E r \in {create_invoice(invoices, nextId, body, now)} :
        /\ IF r.code = 201
           THEN /\ now <= MaxOps
                /\ nextId <= MaxInvoices
                /\ invoices' = r.coll
                /\ nextId' = nextId + 1
                /\ now' = now + 1
           ELSE UNCHANGED <<invoices, nextId, now>>
        /\ UNCHANGED <<clients, nextClientId, inflight, pending, call>>

UpdateInvoice(id, body) ==
    \E r \in {update_invoice(invoices, id, body, now)} :
        /\ IF r.code = 200
           THEN /\ now <= MaxOps
                /\ invoices' = r.coll
                /\ now' = now + 1
           ELSE UNCHANGED <<invoices, now>>
        /\ UNCHANGED <<clients, nextId, nextClientId, inflight, pending, call>>

DeleteInvoice(id) ==
    \E r \in {delete_invoice(invoices, id)} :
        /\ invoices' = r.coll
        /\ UNCHANGED <<clients, nextId, nextClientId, now, inflight, pending, call>>

PayInvoice(id, body) ==
    \E r \in {pay_invoice(invoices, id, body, now)} :
        /\ IF r.code = 200
           THEN /\ now <= MaxOps
                /\ invoices' = r.coll
                /\ now' = now + 1
           ELSE UNCHANGED <<invoices, now>>
        /\ UNCHANGED <<clients, nextId, nextClientId, inflight, pending, call>>

AddClient(body) ==
    \E r \in {add_client(clients, nextClientId, body, now)} :
        /\ IF r.code = 201
           THEN /\ now <= MaxOps
                /\ clients' = r.coll
                /\ nextClientId' = nextClientId + 1
                /\ now' = now + 1
           ELSE UNCHANGED <<clients, nextClientId, now>>
        /\ UNCHANGED <<invoices, nextId, inflight, pending, call>>

Next ==
    \/ \E body \in CreateBodies : CreateInvoice(body)
    \/ \E id \in InvoiceIds, body \in UpdateBodies : UpdateInvoice(id, body)
    \/ \E id \in InvoiceIds : DeleteInvoice(id)
    \/ \E id \in InvoiceIds, body \in PayBodies : PayInvoice(id, body)
    \/ \E body \in ClientBodies : AddClient(body)

Spec == Init /\ [][Next]_vars

(***************************************************************************)
(* Requests served concurrently: a create_invoice request reads the       *)
(* collection (generate_invoice_number) in one step and inserts in a      *)
(* later one; other requests may run in between.  inflight holds the      *)
(* documents of the requests that have not inserted yet.                  *)
(***************************************************************************)
SeedNumber == 9998

\* A collection the program reaches by SeedNumber create_invoice requests and
\* the deletion of all but the last invoice.
SeededInvoices ==
    LET doc == invoice_data(EmptyDict, [items |-> List(<<ItemA>>)], 0).doc
    IN  [i \in {0} |-> SetFields(doc, [invoice_number |-> FormatInvoiceNumber(SeedNumber)])]

InitConc ==
    /\ invoices \in {EmptyDict, SeededInvoices}
    /\ clients = EmptyDict
    /\ nextId = 1
    /\ nextClientId = 1
    /\ now = 1
    /\ inflight = {}
    /\ pending = {}
    /\ call = NoCall

CreateBegin(body) ==
    \E r \in {invoice_data(invoices, body, now)} :
        /\ IF r.code = 201
           THEN /\ now <= MaxOps
                /\ inflight' = inflight \cup {r.doc}
                /\ now' = now + 1
           ELSE UNCHANGED <<inflight, now>>
        /\ UNCHANGED <<invoices, clients, nextId, nextClientId, pending, call>>

\* insert_one of a request in flight; a duplicate key ends the request with
\* an error and inserts nothing.
CreateCommit(doc) ==
    \E ins \in {InsertInvoice(invoices, nextId, doc)} :
        /\ doc \in inflight
        /\ inflight' = inflight \ {doc}
        /\ IF ins.ok
           THEN /\ nextId <= MaxInvoices
                /\ invoices' = ins.coll
                /\ nextId' = nextId + 1
           ELSE UNCHANGED <<invoices, nextId>>
        /\ UNCHANGED <<clients, nextClientId, now, pending, call>>

NextConc ==
    \/ \E body \in ConcCreateBodies : CreateBegin(body)
    \/ \E doc \in inflight : CreateCommit(doc)
    \/ \E id \in ConcInvoiceIds : DeleteInvoice(id)

SpecConc == InitConc /\ [][NextConc]_vars

(***************************************************************************)
(* Client requests served concurrently: add_client, update_client and     *)
(* bulk_create_clients each read the collection (the duplicate check) in  *)
(* one step and write in a later one.  pending holds the requests that    *)
(* have passed their checks and not written yet.                          *)
(***************************************************************************)
AddClientBegin(body) ==
    \E r \in {client_data(clients, body, now)} :
        /\ IF r.code = 201
           THEN /\ now <= MaxOps
                /\ pending' = pending \cup {[op |-> "add_client", doc |-> r.doc]}
                /\ now' = now + 1
           ELSE UNCHANGED <<pending, now>>
        /\ UNCHANGED <<invoices, clients, nextId, nextClientId, inflight, call>>

AddClientCommit(req) ==
    /\ req \in pending
    /\ req.op = "add_client"
    /\ pending' = pending \ {req}
    /\ \E ins \in {InsertClient(clients, nextClientId, req.doc)} :
          IF ins.ok
          THEN /\ clients' = ins.coll
               /\ nextClientId' = nextClientId + 1
          ELSE UNCHANGED <<clients, nextClientId>>
    /\ UNCHANGED <<invoices, nextId, now, inflight, call>>

UpdateClientBegin(client_id, body) ==
    \E r \in {client_update(clients, client_id, body, now)} :
        /\ IF r.code = 200
           THEN /\ now <= MaxOps
                /\ pending' = pending \cup {[op |-> "update_client", filter |-> r.filter,
                                             set |-> r.set]}
                /\ now' = now + 1
           ELSE UNCHANGED <<pending, now>>
        /\ UNCHANGED <<invoices, clients, nextId, nextClientId, inflight, call>>

UpdateClientCommit(req) ==
    /\ req \in pending
    /\ req.op = "update_client"
    /\ pending' = pending \ {req}
    /\ clients' = UpdateOneClient(clients, req.filter, req.set).coll
    /\ UNCHANGED <<invoices, nextId, nextClientId, now, inflight, call>>

BulkCreateBegin(rows) ==
    \E r \in {bulk_data(clients, rows, now)} :
        /\ IF r.code = 200
           THEN /\ now <= MaxOps
                /\ pending' = pending \cup {[op |-> "bulk_create_clients", docs |-> r.docs]}
                /\ now' = now + 1
           ELSE UNCHANGED <<pending, now>>
        /\ UNCHANGED <<invoices, clients, nextId, nextClientId, inflight, call>>

\* insert_many of a request in flight; the rows before the first duplicate
\* key are inserted.
BulkCreateCommit(req) ==
    /\ req \in pending
    /\ req.op = "bulk_create_clients"
    /\ pending' = pending \ {req}
    /\ \E ins \in {insert_many(clients, nextClientId, req.docs)} :
          /\ clients' = ins.coll
          /\ nextClientId' = ins.next
    /\ UNCHANGED <<invoices, nextId, now, inflight, call>>

NextClients ==
    \/ \E body \in ConcClientBodies : AddClientBegin(body)
    \/ \E req \in pending : AddClientCommit(req)
    \/ \E client_id \in ClientUrlIds, body \in ConcClientBodies :
          UpdateClientBegin(client_id, body)
    \/ \E req \in pending : UpdateClientCommit(req)
    \/ \E rows \in BulkBodies : BulkCreateBegin(rows)
    \/ \E req \in pending : BulkCreateCommit(req)

SpecClients == Init /\ [][NextClients]_vars

(***************************************************************************)
(* delete_client served concurrently with create_invoice and               *)
(* update_invoice: a delete_client request finds the client and looks for  *)
(* its invoices in one step and deletes in a later one.                    *)
(***************************************************************************)
InitRef ==
    /\ invoices = EmptyDict
    /\ clients = RefClients
    /\ nextId = 1
    /\ nextClientId = 3
    /\ now = 1
    /\ inflight = {}
    /\ pending = {}
    /\ call = NoCall

DeleteClientBegin(client_id) ==
    \E r \in {delete_check(clients, invoices, client_id)} :
        /\ IF r.code = 200
           THEN pending' = pending \cup {[op |-> "delete_client", filter |-> r.filter]}
           ELSE UNCHANGED pending
        /\ UNCHANGED <<invoices, clients, nextId, nextClientId, now, inflight, call>>

DeleteClientCommit(req) ==
    /\ req \in pending
    /\ req.op = "delete_client"
    /\ pending' = pending \ {req}
    /\ clients' = DeleteOneClient(clients, req.filter).coll
    /\ UNCHANGED <<invoices, nextId, nextClientId, now, inflight, call>>

NextRef ==
    \/ \E body \in RefInvoiceBodies : CreateInvoice(body)
    \/ \E id \in InvoiceIds, body \in RefInvoiceBodies : UpdateInvoice(id, body)
    \/ \E client_id \in RefUrlIds : DeleteClientBegin(client_id)
    \/ \E req \in pending : DeleteClientCommit(req)

SpecRef == InitRef /\ [][NextRef]_vars

(***************************************************************************)
(* Calls of calculate_invoice_total.  call holds the arguments, then the  *)
(* total, then also the total of the same items with every unit_price     *)
(* multiplied by k.                                                       *)
(***************************************************************************)
\* item with its unit_price multiplied by k.
ScaleItem(item, k) ==
    IF "unit_price" \in DOMAIN item /\ IsNum(item["unit_price"])
    THEN [item EXCEPT !["unit_price"] = Num(k * item["unit_price"].v)]
    ELSE item

ScaleItems(items, k) ==
    IF items.t # "list" THEN items
    ELSE List([i \in 1..Len(items.v) |-> ScaleItem(items.v[i], k)])

InitTotals ==
    /\ invoices = EmptyDict
    /\ clients = EmptyDict
    /\ nextId = 1
    /\ nextClientId = 1
    /\ now = 1
    /\ inflight = {}
    /\ pending = {}
    /\ call \in [op : {"args"}, items : TotalsItemLists, gst_rate : TotalsGstRates,
                 k : Factors]

CalculateTotal ==
    /\ call.op = "args"
    /\ call' = [op |-> "calculate_invoice_total",
                items |-> call.items, gst_rate |-> call.gst_rate, k |-> call.k,
                total |-> calculate_invoice_total(call.items, call.gst_rate)]
    /\ UNCHANGED <<invoices, clients, nextId, nextClientId, now, inflight, pending>>

CalculateScaledTotal ==
    /\ call.op = "calculate_invoice_total"
    /\ call' = [op |-> "scaled",
                items |-> call.items, gst_rate |-> call.gst_rate, k |-> call.k,
                total |-> call.total,
                scaled_total |-> calculate_invoice_total(ScaleItems(call.items, call.k),
                                                         call.gst_rate)]
    /\ UNCHANGED <<invoices, clients, nextId, nextClientId, now, inflight, pending>>

NextTotals == CalculateTotal \/ CalculateScaledTotal

SpecTotals == InitTotals /\ [][NextTotals]_vars

(***************************************************************************)
(* Calls of reports_summary.  call holds the response.                    *)
(***************************************************************************)
InitReport ==
    /\ invoices \in ReportInvoices \cup ReportUpdated \cup ReportBilled
    /\ clients \in {EmptyDict, RefClients, BigRoster}
    /\ nextId = Cardinality(DOMAIN invoices) + 1
    /\ nextClientId = Cardinality(DOMAIN clients) + 1
    /\ now = 5
    /\ inflight = {}
    /\ pending = {}
    /\ call = NoCall

ReportsSummary ==
    /\ call' = [op |-> "reports_summary", data |-> reports_summary(invoices, clients)]
    /\ UNCHANGED <<invoices, clients, nextId, nextClientId, now, inflight, pending>>

NextReport == ReportsSummary

SpecReport == InitReport /\ [][NextReport]_vars

(***************************************************************************)
(* Payments served by concurrent workers: a pay_invoice request reads the   *)
(* invoice (find_one) and writes it (update_one) in two steps.              *)
(***************************************************************************)
MaxPays == 2

ConcPayBodies == {[amount |-> Num(40 * One)], [amount |-> Num(100 * One)],
                  [amount |-> Num(156 * One)]}

PaidInvoices ==
    {create_invoice(EmptyDict, 1, body, 1).coll :
        body \in {[items |-> List(<<ItemA>>)],
                  [items |-> List(<<Item100>>), gst_rate |-> Num(0)]}}

InitPay ==
    /\ invoices \in PaidInvoices
    /\ clients = EmptyDict
    /\ nextId = 2
    /\ nextClientId = 1
    /\ now = 2
    /\ inflight = {}
    /\ pending = {}
    /\ call = NoCall

\* The request found its invoice and holds the document it read.
PayBegin(id, body) ==
    /\ Cardinality(pending) < MaxPays
    /\ DOMAIN body # {}
    /\ id \in DOMAIN invoices
    /\ payment_update(invoices[id], body, now).code = 200
    /\ pending' = pending \cup {[op |-> "pay_invoice", n |-> Cardinality(pending) + 1,
                                 id |-> id, body |-> body, invoice |-> invoices[id],
                                 pc |-> "found"]}
    /\ UNCHANGED <<invoices, clients, nextId, nextClientId, now, inflight, call>>

\* The request computes the new amount and status from the document it read
\* and writes them with update_one.
PayCommit(req) ==
    /\ req \in pending
    /\ req.op = "pay_invoice"
    /\ req.pc = "found"
    /\ req.id \in DOMAIN invoices
    /\ invoices' = [invoices EXCEPT ![req.id] =
                       SetFields(@, payment_update(req.invoice, req.body, now).set)]
    /\ pending' = (pending \ {req}) \cup {[req EXCEPT !.pc = "done"]}
    /\ now' = now + 1
    /\ UNCHANGED <<clients, nextId, nextClientId, inflight, call>>

NextPay ==
    \/ \E id \in InvoiceIds, body \in ConcPayBodies : PayBegin(id, body)
    \/ \E req \in pending : PayCommit(req)

SpecPay == InitPay /\ [][NextPay]_vars

(***************************************************************************)
(* Payments and updates served by concurrent workers (SpecPayUpdate): an   *)
(* update_invoice request reads the invoice (find_one) and writes it       *)
(* (update_one) in two steps, as a pay_invoice request does.               *)
(***************************************************************************)
\* Bodies that carry neither amount_paid nor status.
ConcUpdateBodies ==
    { [items |-> List(<<ItemA>>)],
      [items |-> List(<<Item100>>), gst_rate |-> Num(0), currency |-> "USD"] }

\* The request found its invoice and holds the document it read.
UpdateBegin(id, body) ==
    /\ Cardinality(pending) < MaxPays
    /\ DOMAIN body # {}
    /\ id \in DOMAIN invoices
    /\ update_data(invoices[id], body, now).code = 200
    /\ pending' = pending \cup {[op |-> "update_invoice", n |-> Cardinality(pending) + 1,
                                 id |-> id, body |-> body, invoice |-> invoices[id],
                                 pc |-> "found"]}
    /\ UNCHANGED <<invoices, clients, nextId, nextClientId, now, inflight, call>>

\* The request builds update_data from the document it read, payment fields
\* included, and writes it with update_one.
UpdateCommit(req) ==
    /\ req \in pending
    /\ req.op = "update_invoice"
    /\ req.pc = "found"
    /\ req.id \in DOMAIN invoices
    /\ invoices' = [invoices EXCEPT ![req.id] =
                       SetFields(@, update_data(req.invoice, req.body, now).set)]
    /\ pending' = (pending \ {req}) \cup {[req EXCEPT !.pc = "done"]}
    /\ now' = now + 1
    /\ UNCHANGED <<clients, nextId, nextClientId, inflight, call>>

NextPayUpdate ==
    \/ \E id \in InvoiceIds, body \in ConcPayBodies : PayBegin(id, body)
    \/ \E req \in pending : PayCommit(req)
    \/ \E id \in InvoiceIds, body \in ConcUpdateBodies : UpdateBegin(id, body)
    \/ \E req \in pending : UpdateCommit(req)

SpecPayUpdate == InitPay /\ [][NextPayUpdate]_vars

(***************************************************************************)
(* create_invoice and delete_invoice requests with the record of the       *)
(* numbers handed out (SpecNumbers): call.assigned lists, in order, the    *)
(* id and the invoice_number of every invoice a create_invoice request     *)
(* has stored.                                                             *)
(***************************************************************************)
NumberedBodies ==
    CreateBodies \cup
        { [items |-> List(<<Item100>>), gst_rate |-> Num(0), currency |-> "USD"] }

Assigned(coll) ==
    IF DOMAIN coll = {} THEN <<>>
    ELSE <<[id |-> 0, invoice_number |-> coll[0]["invoice_number"]]>>

InitNumbers ==
    /\ invoices \in {EmptyDict, SeededInvoices}
    /\ clients = EmptyDict
    /\ nextId = 1
    /\ nextClientId = 1
    /\ now = 1
    /\ inflight = {}
    /\ pending = {}
    /\ call = [op |-> "create_invoice", assigned |-> Assigned(invoices)]

CreateNumbered(body) ==
    \E r \in {create_invoice(invoices, nextId, body, now)} :
        /\ IF r.code = 201
           THEN /\ now <= MaxOps
                /\ nextId <= MaxInvoices
                /\ invoices' = r.coll
                /\ nextId' = nextId + 1
                /\ now' = now + 1
                /\ call' = [call EXCEPT !.assigned =
                              Append(@, [id |-> nextId,
                                         invoice_number |->
                                             r.coll[nextId]["invoice_number"]])]
           ELSE UNCHANGED <<invoices, nextId, now, call>>
        /\ UNCHANGED <<clients, nextClientId, inflight, pending>>

NextNumbers ==
    \/ \E body \in NumberedBodies : CreateNumbered(body)
    \/ \E id \in ConcInvoiceIds : DeleteInvoice(id)

SpecNumbers == InitNumbers /\ [][NextNumbers]_vars

(***************************************************************************)
(* Client and invoice requests served one at a time (SpecRefSeq).          *)
(***************************************************************************)
\* One delete_client request: the lookups, the invoice check and delete_one.
DeleteClient(client_id) ==
    \E r \in {delete_client(clients, invoices, client_id)} :
        /\ clients' = r.coll
        /\ UNCHANGED <<invoices, nextId, nextClientId, now, inflight, pending, call>>

NextRefSeq ==
    \/ \E body \in ConcClientBodies : AddClient(body)
    \/ \E client_id \in RefUrlIds : DeleteClient(client_id)
    \/ \E body \in RefInvoiceBodies : CreateInvoice(body)
    \/ \E id \in InvoiceIds, body \in RefInvoiceBodies : UpdateInvoice(id, body)
    \/ \E id \in InvoiceIds : DeleteInvoice(id)

SpecRefSeq == Init /\ [][NextRefSeq]_vars

(***************************************************************************)
(* The import script followed by requests (SpecMigrate).                  *)
(***************************************************************************)
RowLower == [name |-> <<"D">>, email |-> EmailA, created_at |-> 0]

ClientFiles ==
    { <<>>, <<RowA>>, <<RowB>>, <<RowLower, RowA>>, <<RowNoName, RowB>>,
      <<[name |-> <<"C">>], RowB, RowA, RowNoName>> }

\* One run of the script: both collections are dropped and the clients of
\* the file inserted (there is no invoices.json).
Migrate(clients_data) ==
    /\ now <= MaxOps
    /\ \E r \in {migrate_json_to_mongodb(clients_data, nextClientId, now)} :
          /\ clients' = r.coll
          /\ nextClientId' = r.next
    /\ invoices' = EmptyDict
    /\ now' = now + 1
    /\ call' = [op |-> "migrate", clients_data |-> clients_data]
    /\ UNCHANGED <<nextId, inflight, pending>>

NextMigrate ==
    \/ \E clients_data \in ClientFiles : Migrate(clients_data)
    \/ \E body \in ConcClientBodies : AddClient(body)

SpecMigrate == Init /\ [][NextMigrate]_vars

(***************************************************************************)
(* Properties.                                                            *)
(***************************************************************************)
\* The three threshold conditions of the payment-status transition rule.
PaidCond(ap, tot) == FGe(ap, tot)
PartialCond(ap, tot) == FGt(ap, Num(0)) /\ IsNum(tot) /\ ap.v < tot.v
UnpaidCond(ap, tot) == IsNum(ap) /\ ap.v = 0

\* The condition the rule attaches to a status holds of (ap, tot).
RuleGives(status, ap, tot) ==
    \/ status = "paid" /\ PaidCond(ap, tot)
    \/ status = "partial" /\ PartialCond(ap, tot)
    \/ status = "unpaid" /\ UnpaidCond(ap, tot)

CondCount(ap, tot) ==
    (IF PaidCond(ap, tot) THEN 1 ELSE 0) + (IF PartialCond(ap, tot) THEN 1 ELSE 0)
      + (IF UnpaidCond(ap, tot) THEN 1 ELSE 0)

StatusRank(status) ==
    CASE status = "paid" -> 2
      [] status = "partial" -> 1
      [] OTHER -> 0

\* The request body carries a JSON number greater than zero as its amount.
PositiveAmount(body) ==
    /\ "amount" \in DOMAIN body
    /\ body["amount"].t = "num"
    /\ body["amount"].v > 0

\* C1: every stored invoice's status is the one the transition rule gives for
\* its stored amount_paid and total.
C1_StatusConsistent ==
    \A id \in DOMAIN invoices :
        RuleGives(invoices[id]["status"], invoices[id]["amount_paid"], invoices[id]["total"])

\* C2: every stored invoice's total is calculate_invoice_total of its stored
\* items and gst_rate.
C2_TotalIsEngineOutput ==
    \A id \in DOMAIN invoices :
        invoices[id]["total"] =
            calculate_invoice_total(invoices[id]["items"], invoices[id]["gst_rate"])

\* An invoice whose items were replaced by an update and that has been paid on.
C2_Witness ==
    \E id \in DOMAIN invoices :
        /\ invoices[id]["items"] = List(<<ItemA, ItemA>>)
        /\ invoices[id]["total"] = Num(512 * One)
        /\ FGt(invoices[id]["amount_paid"], Num(0))

\* C3: no request changes the invoice_number of a stored invoice.
C3_NumberImmutable ==
    [][\A id \in DOMAIN invoices \cap DOMAIN invoices' :
          invoices'[id]["invoice_number"] = invoices[id]["invoice_number"]]_vars

\* An invoice updated by the body that carries an invoice_number, then paid on.
C3_Witness ==
    \E id \in DOMAIN invoices :
        /\ invoices[id]["currency"] = "EUR"
        /\ invoices[id]["items"] = List(<<ItemN, ItemC>>)
        /\ invoices[id]["invoice_number"] # OtherNumber
        /\ FGt(invoices[id]["amount_paid"], Num(0))

\* "INV-" followed by a zero-padded decimal number of at least 4 digits.
WellFormedNumber(s) ==
    /\ Len(s) >= 8
    /\ SubSeq(s, 1, 4) = <<"I", "N", "V", "-">>
    /\ \A i \in 5..Len(s) : IsDigit(s[i])
    /\ Len(s) > 8 => s[5] # "0"

\* C4: the invoice numbers of the stored invoices are pairwise distinct and
\* well formed, in every interleaving of create_invoice and delete_invoice.
C4_NumbersDistinct ==
    /\ \A i, j \in DOMAIN invoices :
          i # j => invoices[i]["invoice_number"] # invoices[j]["invoice_number"]
    /\ \A i \in DOMAIN invoices : WellFormedNumber(invoices[i]["invoice_number"])

\* A create_invoice request is about to insert a number that is already
\* stored, next to a stored five-digit number.
C4_Witness ==
    /\ \E doc \in inflight : \E i \in DOMAIN invoices :
          invoices[i]["invoice_number"] = doc["invoice_number"]
    /\ \E i \in DOMAIN invoices : Len(invoices[i]["invoice_number"]) > 8

\* C5: a pay_invoice request with a positive amount p on a stored invoice
\* succeeds, stores the previous amount_paid plus p and stores the status the
\* rule gives for the stored amount_paid and total.
C5_PayAddsAmount ==
    \A id \in DOMAIN invoices : \A body \in PayBodies :
        PositiveAmount(body) =>
           \E r \in {pay_invoice(invoices, id, body, now)} :
              /\ r.code = 200
              /\ r.coll[id]["amount_paid"] =
                    FAdd(invoices[id]["amount_paid"], body["amount"])
              /\ RuleGives(r.coll[id]["status"], r.coll[id]["amount_paid"],
                           r.coll[id]["total"])

\* C6: a pay_invoice request whose amount is not a positive number is answered
\* with an error and changes no stored invoice.
C6_BadAmountRejected ==
    \A id \in InvoiceIds : \A body \in PayBodies :
        ~PositiveAmount(body) =>
           \E r \in {pay_invoice(invoices, id, body, now)} :
              /\ r.code >= 400
              /\ r.coll = invoices

\* C7: a successful pay_invoice request strictly increases amount_paid and
\* never lowers the status.
C7_PayMonotonic ==
    \A id \in DOMAIN invoices : \A body \in PayBodies :
        \E r \in {pay_invoice(invoices, id, body, now)} :
           r.code = 200 =>
              /\ FGt(r.coll[id]["amount_paid"], invoices[id]["amount_paid"])
              /\ StatusRank(r.coll[id]["status"]) >= StatusRank(invoices[id]["status"])

\* The (amount_paid, total) pairs of a state: those stored, and the
\* (new_paid, total) pairs of the pay_invoice requests that would succeed.
StatusPairs ==
    {<<invoices[id]["amount_paid"], invoices[id]["total"]>> : id \in DOMAIN invoices}
    \cup
    {<<FAdd(PyFloat(invoices[x[1]]["amount_paid"], One), PyFloat(x[2]["amount"], One)),
       PyFloat(invoices[x[1]]["total"], One)>> :
        x \in {y \in (DOMAIN invoices) \X PayBodies :
                  payment_update(invoices[y[1]], y[2], now).code = 200}}

\* C8 as claimed: for every pair with amount_paid >= 0 exactly one threshold
\* condition holds and the computed status is that one.
C8_ExactlyOne ==
    \A pr \in StatusPairs :
        FGe(pr[1], Num(0)) /\ IsNum(pr[2]) =>
           /\ CondCount(pr[1], pr[2]) = 1
           /\ RuleGives(payment_status(pr[1], pr[2]), pr[1], pr[2])

\* C8 as amended: for every pair with amount_paid >= 0 the computed status is
\* the first condition that holds in the order paid, partial, unpaid; exactly
\* one holds, except that paid and unpaid both hold when amount_paid = 0 and
\* total <= 0, and paid is computed.
C8_StatusThresholds ==
    \A pr \in StatusPairs :
        FGe(pr[1], Num(0)) /\ IsNum(pr[2]) =>
           /\ payment_status(pr[1], pr[2]) =
                 (IF PaidCond(pr[1], pr[2]) THEN "paid"
                  ELSE IF PartialCond(pr[1], pr[2]) THEN "partial"
                  ELSE "unpaid")
           /\ RuleGives(payment_status(pr[1], pr[2]), pr[1], pr[2])
           /\ IF pr[1].v = 0 /\ pr[2].v <= 0
              THEN PaidCond(pr[1], pr[2]) /\ UnpaidCond(pr[1], pr[2])
                   /\ ~PartialCond(pr[1], pr[2])
              ELSE CondCount(pr[1], pr[2]) = 1

\* A payment brought amount_paid to 0 on an invoice whose total is 0, and the
\* invoice is stored as paid.
C8_Witness ==
    \E id \in DOMAIN invoices :
        /\ invoices[id]["items"] = List(<<ItemZ>>)
        /\ invoices[id]["gst_rate"] = Num(18)
        /\ invoices[id]["total"] = Num(0)
        /\ invoices[id]["amount_paid"] = Num(0)
        /\ invoices[id]["status"] = "paid"

\* The fields of invoice id other than those in `changed` are the same before
\* and after the step, and so are the other invoices and the clients.
PayFrame(id, changed) ==
    /\ DOMAIN invoices' = DOMAIN invoices
    /\ DOMAIN invoices'[id] = DOMAIN invoices[id]
    /\ \A k \in DOMAIN invoices[id] \ changed : invoices'[id][k] = invoices[id][k]
    /\ \A other \in DOMAIN invoices \ {id} : invoices'[other] = invoices[other]
    /\ clients' = clients

\* C9 as claimed: a successful pay_invoice request changes only amount_paid
\* and status of the target invoice (a step that advances now is a request
\* that succeeded).
C9_PayChangesOnlyPayment ==
    [][now' # now =>
          \A id \in DOMAIN invoices : \A body \in PayBodies :
             PayInvoice(id, body) => PayFrame(id, {"amount_paid", "status"})]_vars

\* C9 as amended: a successful pay_invoice request changes only amount_paid,
\* status and updated_at of the target invoice.
C9_PayFrame ==
    [][now' # now =>
          \A id \in DOMAIN invoices : \A body \in PayBodies :
             PayInvoice(id, body) => PayFrame(id, {"amount_paid", "status", "updated_at"})]_vars

\* A payment has been recorded while a client is stored.
C9_Witness ==
    /\ DOMAIN clients # {}
    /\ \E id \in DOMAIN invoices :
          /\ FGt(invoices[id]["amount_paid"], Num(0))
          /\ invoices[id]["updated_at"] > invoices[id]["created_at"]

\* C10: every stored invoice has a numeric amount_paid >= 0.
C10_AmountPaidNonNegative ==
    \A id \in DOMAIN invoices : FGe(invoices[id]["amount_paid"], Num(0))

\* The emails of the stored clients.
StoredEmails(coll) == {coll[i]["email"] : i \in DOMAIN coll}

\* The body has the name and the email a client request requires.
HasNameAndEmail(body) == ~Falsy(body, "name") /\ ~Falsy(body, "email")

\* An add_client request with this body would create a duplicate.
AddWouldDuplicate(coll, body) ==
    HasNameAndEmail(body) /\ Lower(body["email"]) \in StoredEmails(coll)

\* An update_client request for the stored client id would create a duplicate.
UpdateWouldDuplicate(coll, id, body) ==
    /\ HasNameAndEmail(body)
    /\ \E i \in DOMAIN coll \ {id} : coll[i]["email"] = Lower(body["email"])

\* The emails a bulk_create_clients request asks to store, lower-cased.
RowEmails(rows) ==
    {Lower(rows[k]["email"]) : k \in {j \in 1..Len(rows) : HasNameAndEmail(rows[j])}}

\* A bulk_create_clients request with these rows would create a duplicate: a
\* row's email is stored already or is the email of an earlier row.
BulkWouldDuplicate(coll, rows) ==
    \E k \in 1..Len(rows) :
        /\ HasNameAndEmail(rows[k])
        /\ \/ Lower(rows[k]["email"]) \in StoredEmails(coll)
           \/ \E j \in 1..(k - 1) :
                 HasNameAndEmail(rows[j]) /\ Lower(rows[j]["email"]) = Lower(rows[k]["email"])

\* Every stored email is lower-cased and no two stored clients share one.
EmailsLowerAndUnique(coll) ==
    /\ \A i \in DOMAIN coll : coll[i]["email"] = Lower(coll[i]["email"])
    /\ \A i, j \in DOMAIN coll : i # j => coll[i]["email"] # coll[j]["email"]

\* An add_client or update_client request that would create a duplicate is
\* answered with an error and leaves the clients as they are, whether it is
\* served at once or has passed its own check and writes now.
SingleDuplicateRejected ==
    /\ \A body \in ConcClientBodies :
          AddWouldDuplicate(clients, body) =>
             \E r \in {add_client(clients, nextClientId, body, now)} :
                r.code >= 400 /\ r.coll = clients
    /\ \A client_id \in ClientUrlIds, body \in ConcClientBodies :
          \E id \in {find_client(clients, client_id).id} :
             id # None /\ UpdateWouldDuplicate(clients, id, body) =>
                \E r \in {update_client(clients, client_id, body, now)} :
                   r.code >= 400 /\ r.coll = clients
    /\ \A req \in pending :
          /\ req.op = "add_client" /\ req.doc["email"] \in StoredEmails(clients) =>
                \E ins \in {InsertClient(clients, nextClientId, req.doc)} :
                   ~ins.ok /\ ins.coll = clients
          /\ req.op = "update_client" =>
                \E id \in {find_one(clients, req.filter)} :
                   id # None /\ req.set["email"] \in StoredEmails(Delete(clients, id)) =>
                      \E r \in {UpdateOneClient(clients, req.filter, req.set)} :
                         r.code >= 400 /\ r.coll = clients

\* C11 as claimed: the stored emails are lower-cased and pairwise distinct,
\* and every request that would create a duplicate -- add_client,
\* update_client or bulk_create_clients -- is answered with an error and
\* leaves the clients as they are.
C11_DuplicateRejected ==
    /\ EmailsLowerAndUnique(clients)
    /\ SingleDuplicateRejected
    /\ \A rows \in BulkBodies :
          BulkWouldDuplicate(clients, rows) =>
             \E r \in {bulk_create_clients(clients, nextClientId, rows, now)} :
                r.code >= 400 /\ r.coll = clients

\* C11 as amended: the stored emails are lower-cased and pairwise distinct;
\* an add_client or update_client request that would create a duplicate is
\* answered with an error and leaves the clients as they are; a
\* bulk_create_clients request changes no stored client and stores no row
\* whose email is stored already or is that of an earlier row: served at once
\* it succeeds and stores exactly one client for each new email of its rows,
\* and writing after its check it stores the rows before the first one whose
\* email has been stored in the meantime.
C11_ClientEmails ==
    /\ EmailsLowerAndUnique(clients)
    /\ SingleDuplicateRejected
    /\ \A rows \in BulkBodies \ {<<>>} :
          \E r \in {bulk_create_clients(clients, nextClientId, rows, now)} :
             /\ r.code = 200
             /\ \A i \in DOMAIN clients : i \in DOMAIN r.coll /\ r.coll[i] = clients[i]
             /\ EmailsLowerAndUnique(r.coll)
             /\ StoredEmails(r.coll) = StoredEmails(clients) \cup RowEmails(rows)
    /\ \A req \in pending :
          req.op = "bulk_create_clients" =>
             \E ins \in {insert_many(clients, nextClientId, req.docs)} :
                /\ \A i \in DOMAIN clients : i \in DOMAIN ins.coll /\ ins.coll[i] = clients[i]
                /\ EmailsLowerAndUnique(ins.coll)
                /\ LET n == ins.next - nextClientId
                   IN  /\ \A k \in 1..n : ins.coll[nextClientId + k - 1] = req.docs[k]
                       /\ DOMAIN ins.coll = DOMAIN clients \cup (nextClientId..(ins.next - 1))
                       /\ ins.ok <=> n = Len(req.docs)
                       /\ ~ins.ok => req.docs[n + 1]["email"] \in StoredEmails(ins.coll)

\* Two requests have passed their checks and are about to write an email that
\* has been stored in the meantime: an add_client request, and a
\* bulk_create_clients request whose second row is the duplicate.
C11_Witness ==
    /\ \E req \in pending :
          /\ req.op = "add_client"
          /\ req.doc["email"] \in StoredEmails(clients)
    /\ \E req \in pending :
          /\ req.op = "bulk_create_clients"
          /\ Len(req.docs) = 2
          /\ req.docs[1]["email"] \notin StoredEmails(clients)
          /\ req.docs[2]["email"] \in StoredEmails(clients)

\* A stored invoice references the stored client id through for.id.
Referenced(id) == \E i \in DOMAIN invoices : referenced_client(clients, invoices[i]) = id

\* C12: while a stored invoice references a client, a delete_client request
\* for it is answered with an error and leaves clients and invoices as they
\* are, whether it is served at once or has passed its own check and deletes
\* now.
C12_ReferencedClientKept ==
    /\ \A client_id \in RefUrlIds :
          \E id \in {find_client(clients, client_id).id} :
             id # None /\ Referenced(id) =>
                \E r \in {delete_client(clients, invoices, client_id)} :
                   r.code >= 400 /\ r.coll = clients
    /\ \A req \in pending :
          req.op = "delete_client" =>
             \E id \in {find_one(clients, req.filter)} :
                id # None /\ Referenced(id) =>
                   \E r \in {DeleteOneClient(clients, req.filter)} :
                      r.code >= 400 /\ r.coll = clients

\* An item whose quantity, unit_price and tax are JSON numbers or absent.
NumericItem(item) ==
    \A f \in {"quantity", "unit_price", "tax"} : f \in DOMAIN item => item[f].t = "num"

\* An item one of whose three fields float() rejects.
MalformedItem(item) ==
    \E f \in {"quantity", "unit_price", "tax"} :
        f \in DOMAIN item /\ IsErr(PyFloat(item[f], 1))

Field(item, f) == IF f \in DOMAIN item THEN item[f].v ELSE 0

\* Sum of quantity * unit_price over the items.
RECURSIVE Subtotal(_)
Subtotal(seq) ==
    IF seq = <<>> THEN 0
    ELSE Field(Head(seq), "quantity") * Field(Head(seq), "unit_price") + Subtotal(Tail(seq))

\* 100 times the sum of quantity * unit_price * tax / 100 over the items.
RECURSIVE ItemTaxTimes100(_)
ItemTaxTimes100(seq) ==
    IF seq = <<>> THEN 0
    ELSE Field(Head(seq), "quantity") * Field(Head(seq), "unit_price") * Field(Head(seq), "tax")
         + ItemTaxTimes100(Tail(seq))

\* 100 times subtotal + item tax total + subtotal * gst_rate / 100.
ClosedFormTimes100(seq, gst_rate) ==
    100 * Subtotal(seq) + ItemTaxTimes100(seq) + Subtotal(seq) * gst_rate.v

\* n / 100 rounded to the nearest cent, an exact tie to the even cent.
RoundCentsOf100th(n) ==
    LET unit == 100 * Cent
        q == n \div unit
        r == n % unit
    IN  IF 2 * r < unit THEN q * Cent
        ELSE IF 2 * r > unit THEN (q + 1) * Cent
        ELSE IF q % 2 = 0 THEN q * Cent ELSE (q + 1) * Cent

\* The call is one of a non-empty list of numeric items.
NumericCall ==
    /\ call.op \in {"calculate_invoice_total", "scaled"}
    /\ call.items.t = "list"
    /\ call.items.v # <<>>
    /\ \A i \in 1..Len(call.items.v) : NumericItem(call.items.v[i])

\* C13: for numeric items and a numeric gst_rate the total is subtotal + item
\* tax total + subtotal * gst_rate / 100 rounded to 2 decimals; for an empty
\* or non-list items value it is 0; with gst_rate 0 it is subtotal + item tax
\* total; items [{quantity 2, unit_price 100, tax 10}] with gst_rate 18 give
\* 256.00.
C13_TotalClosedForm ==
    call.op \in {"calculate_invoice_total", "scaled"} =>
       /\ (call.items.t # "list" \/ call.items.v = <<>>) => call.total = Num(0)
       /\ NumericCall =>
             call.total = Num(RoundCentsOf100th(ClosedFormTimes100(call.items.v, call.gst_rate)))
       /\ NumericCall /\ call.gst_rate = Num(0) =>
             call.total = Num(RoundCentsOf100th(100 * Subtotal(call.items.v)
                                                  + ItemTaxTimes100(call.items.v)))
       /\ (call.items = List(<<ItemA>>) /\ call.gst_rate = Num(18)) =>
             call.total = Num(256 * One)

\* The total of two numeric items, one of them with a negative quantity, has
\* been computed with a GST rate, and rounding changed it.
C13_Witness ==
    /\ NumericCall
    /\ call.items = List(<<ItemN, ItemC>>)
    /\ call.gst_rate = Num(18)
    /\ call.total = Num(-117 * One - 58 * Cent)
    /\ ClosedFormTimes100(call.items.v, call.gst_rate) # 100 * call.total.v

RECURSIVE WellFormedItems(_)
WellFormedItems(seq) ==
    IF seq = <<>> THEN <<>>
    ELSE IF MalformedItem(Head(seq)) THEN WellFormedItems(Tail(seq))
    ELSE <<Head(seq)>> \o WellFormedItems(Tail(seq))

\* C15: with a malformed item in the list the call returns a number, the
\* total of the remaining items; the malformed item adds nothing to subtotal
\* or item tax.
C15_MalformedSkipped ==
    (/\ call.op \in {"calculate_invoice_total", "scaled"}
     /\ call.items.t = "list"
     /\ \E i \in 1..Len(call.items.v) : MalformedItem(call.items.v[i])) =>
       LET rest == WellFormedItems(call.items.v)
           zero == [subtotal |-> Num(0), total_tax |-> Num(0)]
       IN  /\ IsNum(call.total)
           /\ call.total = calculate_invoice_total(List(rest), call.gst_rate)
           /\ SumItems(call.items.v, zero) = SumItems(rest, zero)
           /\ call.total =
                 Num(RoundCentsOf100th(ClosedFormTimes100(rest, call.gst_rate)))

\* The total of a list with an item whose tax is not a number, next to a
\* well-formed item, has been computed.
C15_Witness ==
    /\ call.op = "calculate_invoice_total"
    /\ call.items = List(<<BadTax, ItemA>>)
    /\ call.gst_rate = Num(18)
    /\ call.total = Num(256 * One)

\* The items field of the body is absent, empty or not a list.
BadItems(body) == ItemsInvalid(Get(body, "items", List(<<>>)))

\* C16: a create_invoice or update_invoice request whose items field is
\* absent, empty or not a list is answered with an error (400 when the body
\* is read, 404 when the update names no stored invoice), makes no call of
\* calculate_invoice_total and leaves the invoices as they are.
C16_BadItemsRejected ==
    /\ \A body \in CreateBodies :
          BadItems(body) =>
             /\ \E r \in {create_invoice(invoices, nextId, body, now)} :
                   r.code = 400 /\ r.coll = invoices
             /\ invoice_data(invoices, body, now).calls = 0
    /\ \A id \in InvoiceIds, body \in UpdateBodies :
          BadItems(body) =>
             /\ \E r \in {update_invoice(invoices, id, body, now)} :
                   /\ r.code \in {400, 404}
                   /\ r.code = 404 => id \notin DOMAIN invoices
                   /\ r.coll = invoices
             /\ id \in DOMAIN invoices => update_data(invoices[id], body, now).calls = 0

\* An invoice is stored, paid on, and an update of it with items that are not
\* a list or are empty is answered 400.
C16_Witness ==
    \E id \in DOMAIN invoices :
        /\ FGt(invoices[id]["amount_paid"], Num(0))
        /\ update_invoice(invoices, id, [items |-> NotAList], now).code = 400
        /\ update_invoice(invoices, id, [items |-> List(<<>>), status |-> "paid"], now).code = 400
        /\ create_invoice(invoices, nextId, [currency |-> "USD"], now).code = 400


(***************************************************************************)
(* The summary of reports_summary (SpecReport).                            *)
(***************************************************************************)
\* A summary has been asked for the stored collections, and answered with
\* its data.
Summarized == call.op = "reports_summary"
Answered == Summarized /\ call.data.code = 200

\* The sum of float(inv.get(field, 0)) over the stored invoices, unrounded.
RECURSIVE StoredSum(_, _, _)
StoredSum(invs, ids, field) ==
    IF ids = {} THEN Num(0)
    ELSE LET i == CHOOSE x \in ids : TRUE
         IN  FAdd(PyFloat(Get(invs[i], field, Num(0)), One),
                  StoredSum(invs, ids \ {i}, field))

\* round(a / b * 100, 2) for any b other than 0.
QuotientPercent(a, b) ==
    IF b.v > 0 THEN RoundedPercent(a, b) ELSE RoundedPercent(FNeg(a), FNeg(b))

\* C17: in every summary the reported total_outstanding is the reported
\* total_invoiced minus the reported total_paid, negative differences
\* included.
C17_OutstandingIdentity ==
    Answered =>
        /\ IsNum(call.data.total_invoiced)
        /\ IsNum(call.data.total_paid)
        /\ IsNum(call.data.total_outstanding)
        /\ call.data.total_outstanding.v
              = call.data.total_invoiced.v - call.data.total_paid.v

\* C18: with no stored invoice, whatever the clients, the summary is answered
\* with 200, every amount, the average and the collection rate are 0 and the
\* lists of top clients and of months are empty.
C18_EmptySummary ==
    (Summarized /\ DOMAIN invoices = {}) =>
        /\ call.data.code = 200
        /\ call.data.average_invoice = Num(0)
        /\ call.data.collection_rate = Num(0)
        /\ call.data.total_invoiced = Num(0)
        /\ call.data.total_paid = Num(0)
        /\ call.data.total_outstanding = Num(0)
        /\ call.data.top_clients = <<>>
        /\ call.data.monthly_data = <<>>

C18_Witness ==
    /\ Summarized
    /\ DOMAIN invoices = {}
    /\ DOMAIN clients # {}
    /\ call.data.client_count = 2
    /\ call.data.collection_rate = Num(0)

\* C19: whenever the amount invoiced is a number other than 0, negative
\* amounts included, the reported collection_rate is total_paid /
\* total_invoiced * 100 rounded to 2 decimals.
C19_CollectionRate ==
    LET total_invoiced == StoredSum(invoices, DOMAIN invoices, "total")
        total_paid == StoredSum(invoices, DOMAIN invoices, "amount_paid")
    IN  (Answered /\ IsNum(total_invoiced) /\ IsNum(total_paid)
            /\ total_invoiced.v # 0) =>
            call.data.collection_rate = QuotientPercent(total_paid, total_invoiced)


(***************************************************************************)
(* Concurrent payments (SpecPay).                                          *)
(***************************************************************************)
\* The sum of the amounts of the requests reqs, in the unit of the amounts.
RECURSIVE PaymentSum(_)
PaymentSum(reqs) ==
    IF reqs = {} THEN 0
    ELSE LET r == CHOOSE x \in reqs : TRUE
         IN  r.body.amount.v + PaymentSum(reqs \ {r})

\* C20: once the concurrent pay_invoice requests on an invoice have all
\* written, its amount_paid is the initial amount_paid (0) plus the sum of
\* their amounts and its status is the one the transition rule gives for
\* that sum.
C20_PaymentsAdd ==
    (pending # {} /\ \A r \in pending : r.pc = "done") =>
        \A id \in DOMAIN invoices :
            LET reqs == {r \in pending : r.id = id}
                paid == Num(PaymentSum(reqs))
            IN  /\ invoices[id].amount_paid = paid
                /\ reqs # {} =>
                      invoices[id].status = payment_status(paid, invoices[id].total)


(***************************************************************************)
(* The import script (SpecMigrate).                                        *)
(***************************************************************************)
\* The clients collection is the one the last run of the script left.
JustMigrated ==
    /\ call.op = "migrate"
    /\ clients = migrate_json_to_mongodb(call.clients_data,
                                         nextClientId - Cardinality(DOMAIN clients),
                                         now - 1).coll

\* The first client of the file with the email of stored client i, up to
\* case, is the stored one.
FirstOccurrenceKept(clients_data, doc) ==
    LET same == {k \in 1..Len(clients_data) :
                    Lower(Get(clients_data[k], "email", <<>>)) = Lower(doc["email"])}
        first == CHOOSE k \in same : \A m \in same : k <= m
    IN  same # {} /\ Get(doc, "name", <<>>) = Get(clients_data[first], "name", <<>>)

\* C21: after a run of the script the stored emails are lower-cased and
\* pairwise distinct, no stored client lacks an email, the first client of
\* the file with an email is the one kept, and an add_client request whose
\* email equals a stored one up to case is rejected.
C21_MigratedEmails ==
    JustMigrated =>
        /\ EmailsLowerAndUnique(clients)
        /\ \A i \in DOMAIN clients :
              /\ ~Falsy(clients[i], "email")
              /\ FirstOccurrenceKept(call.clients_data, clients[i])
        /\ \A body \in ConcClientBodies :
              (HasNameAndEmail(body)
                 /\ \E i \in DOMAIN clients :
                       Lower(clients[i]["email"]) = Lower(body["email"]))
              => add_client(clients, nextClientId, body, now).code = 400


(***************************************************************************)
(* The breakdowns of reports_summary (SpecReport).                         *)
(***************************************************************************)
RecognisedStatuses == {"paid", "partial", "unpaid"}

\* total and amount_paid of the stored invoice convert with float().
Convertible(inv) ==
    /\ ~IsErr(PyFloat(Get(inv, "total", Num(0)), One))
    /\ ~IsErr(PyFloat(Get(inv, "amount_paid", Num(0)), One))

\* The stored invoices with status s.
WithStatus(s) == {i \in DOMAIN invoices : Get(invoices[i], "status", "unpaid") = s}

\* The reported totals are those of the invoices ids.
TotalsAreOf(ids) ==
    /\ call.data.total_invoiced = Round2(StoredSum(invoices, ids, "total"))
    /\ call.data.total_paid = Round2(StoredSum(invoices, ids, "amount_paid"))

\* C22: status_breakdown has exactly the keys paid, partial and unpaid, each
\* counts the stored invoices with that status, and an invoice with another
\* status is in none of the counts while its total and amount_paid are in
\* total_invoiced and total_paid.
C22_StatusBreakdown ==
    Answered =>
        /\ DOMAIN call.data.status_breakdown = RecognisedStatuses
        /\ \A s \in RecognisedStatuses :
              call.data.status_breakdown[s] = Cardinality(WithStatus(s))
        /\ call.data.status_breakdown["paid"] + call.data.status_breakdown["partial"]
              + call.data.status_breakdown["unpaid"]
              = Cardinality({i \in DOMAIN invoices :
                               invoices[i]["status"] \in RecognisedStatuses})
        /\ (\A i \in DOMAIN invoices : Convertible(invoices[i]))
              => TotalsAreOf(DOMAIN invoices)


\* The stored invoice names no client: its "for" is absent, or an object
\* that is empty or has no id.
NoClientReference(inv) ==
    LET for == Get(inv, "for", EmptyDict)
    IN  ~NotADict(for) /\ "id" \notin DOMAIN for

Unreferencing == {i \in DOMAIN invoices : NoClientReference(invoices[i])}

\* The stored invoices without those of ids.
Without(ids) == [i \in DOMAIN invoices \ ids |-> invoices[i]]

\* C23: when stored invoices name no client, the summary is answered with
\* 200, they add to no client's revenue (the top clients are those of the
\* other invoices alone), they are counted in invoice_count and their total
\* and amount_paid are in total_invoiced and total_paid.
C23_NoClientReference ==
    (Summarized /\ Unreferencing # {}) =>
        /\ call.data.code = 200
        /\ call.data.invoice_count = Cardinality(DOMAIN invoices)
        /\ call.data.top_clients
              = reports_summary(Without(Unreferencing), clients).top_clients
        /\ (\A i \in DOMAIN invoices : Convertible(invoices[i]))
              => TotalsAreOf(DOMAIN invoices)


\* The ids by which an invoice names the stored client i: the "id" of the
\* client as the API returns it, and the custom "id" field where it has one.
RosterRef(i) ==
    {OidStr(i)} \cup (IF "id" \in DOMAIN clients[i] THEN {clients[i]["id"]} ELSE {})

\* The id an invoice names, NullVal where it names none.
ForId(inv) == Get(Get(inv, "for", EmptyDict), "id", NullVal)

\* The sum of the totals of the invoices that name client i.
Revenue(i) ==
    StoredSum(invoices, {k \in DOMAIN invoices : ForId(invoices[k]) \in RosterRef(i)},
              "total")

\* The first invoice, in stored order, that names id.
FirstSeen(id) ==
    CHOOSE k \in DOMAIN invoices :
        /\ ForId(invoices[k]) = id
        /\ \A m \in DOMAIN invoices : ForId(invoices[m]) = id => k <= m

\* C24: top_clients holds the stored clients with a revenue above 0, at most
\* the 5 with the largest revenue, by revenue descending, equal revenues in
\* the order in which the invoices first name them; no other client appears.
C24_TopClients ==
    (Answered /\ \A k \in DOMAIN invoices : Convertible(invoices[k])) =>
        LET top == call.data.top_clients
            Earners == {i \in DOMAIN clients : FGt(Revenue(i), Num(0))}
            Listed == {i \in Earners : \E n \in 1..Len(top) : top[n].id \in RosterRef(i)}
        IN  /\ Len(top) = IF Cardinality(Earners) < 5 THEN Cardinality(Earners) ELSE 5
            /\ \A n \in 1..Len(top) :
                  \E i \in Earners : /\ top[n].id \in RosterRef(i)
                                     /\ top[n].revenue = Round2(Revenue(i))
            /\ \A m, n \in 1..Len(top) :
                  m < n => /\ top[m].id # top[n].id
                           /\ \/ top[m].revenue.v > top[n].revenue.v
                              \/ /\ top[m].revenue.v = top[n].revenue.v
                                 /\ FirstSeen(top[m].id) < FirstSeen(top[n].id)
            /\ \A i \in Earners \ Listed, n \in 1..Len(top) :
                  top[n].revenue.v >= Revenue(i).v


\* key is a year-month key: a year of four digits, a dash and a month from
\* 1 to 12 in one or two digits.
ValidKey(key) ==
    LET parts == SplitDash(key)
    IN  /\ Len(parts) = 2
        /\ Len(parts[1]) = 4 /\ PyInt(parts[1]) >= 1
        /\ Len(parts[2]) \in {1, 2} /\ PyInt(parts[2]) \in 1..12

\* The year-month keys of the dates of the stored invoices.
PresentKeys ==
    {key \in {MonthKey(Get(invoices[k], "date", <<>>)) : k \in DOMAIN invoices} :
        ValidKey(key)}

\* The entry of a key: its month, and the sum of the totals of the invoices
\* whose date starts with it.
MonthEntry(key) ==
    [month |-> [month |-> PyInt(SplitDash(key)[2]), year |-> PyInt(SplitDash(key)[1])],
     amount |-> Round2(StoredSum(invoices,
                          {k \in DOMAIN invoices :
                              MonthKey(Get(invoices[k], "date", <<>>)) = key},
                          "total"))]

RECURSIVE MonthsAscending(_)
MonthsAscending(keys) ==
    IF keys = {} THEN <<>>
    ELSE LET first == CHOOSE x \in keys : \A y \in keys \ {x} : StrLess(x, y)
         IN  <<MonthEntry(first)>> \o MonthsAscending(keys \ {first})

\* C25: monthly_data has one entry for each year-month key of the invoices'
\* dates, with the sum of the totals of the invoices of that key, in
\* ascending order of the keys, and only the 6 greatest keys when there are
\* more.
C25_MonthlyData ==
    Answered =>
        /\ Len(call.data.monthly_data) <= 6
        /\ call.data.monthly_data = LastN(MonthsAscending(PresentKeys), 6)


\* The date of the stored invoice is missing, empty or does not start with
\* a year-month key.
BadDate(inv) == ~ValidKey(MonthKey(Get(inv, "date", <<>>)))

Malformed(inv) ==
    \/ ~Convertible(inv)
    \/ NotADict(Get(inv, "for", EmptyDict))
    \/ BadDate(inv)
    \/ Get(inv, "status", "unpaid") \notin RecognisedStatuses

\* The stored invoices whose total and amount_paid convert.
Contributing == {i \in DOMAIN invoices : Convertible(invoices[i])}

\* C27: whatever malformed records are stored, the summary is answered with
\* 200; a malformed record is in total_invoiced and total_paid with both
\* amounts or with neither, and the other invoices contribute as they do
\* without it.
C27_NeverAborts ==
    Summarized =>
        /\ call.data.code = 200
        /\ \A k \in DOMAIN invoices :
              Malformed(invoices[k]) =>
                  \/ TotalsAreOf(Contributing \cup {k})
                  \/ TotalsAreOf(Contributing \ {k})


(***************************************************************************)
(* Payments and updates (SpecPayUpdate).                                   *)
(***************************************************************************)
\* C28: once a pay_invoice request and an update_invoice request without
\* amount_paid and status have both written the same invoice, its
\* amount_paid and status are those the payment produced.
C28_UpdateKeepsPayment ==
    \A p, u \in pending :
        (/\ p.op = "pay_invoice" /\ u.op = "update_invoice"
         /\ p.id = u.id
         /\ p.pc = "done" /\ u.pc = "done"
         /\ Cardinality(pending) = 2)
        => LET paid == payment_update(p.invoice, p.body, now).set
           IN  /\ invoices[p.id]["amount_paid"] = paid["amount_paid"]
               /\ invoices[p.id]["status"] = paid["status"]


(***************************************************************************)
(* Invoice numbers over creations and deletions (SpecNumbers).             *)
(***************************************************************************)
\* The number in "INV-<digits>".
NumberOf(invoice_number) == PyInt(SplitDash(invoice_number)[2])

\* C29: over create_invoice and delete_invoice requests, every number
\* assigned is numerically greater than every number assigned before it, so
\* no number is assigned to two invoices.
C29_NumbersIncrease ==
    \A i, j \in 1..Len(call.assigned) :
        i < j => /\ call.assigned[i].invoice_number # call.assigned[j].invoice_number
                 /\ NumberOf(call.assigned[i].invoice_number)
                        < NumberOf(call.assigned[j].invoice_number)


(***************************************************************************)
(* Referential integrity (SpecRefSeq).                                     *)
(***************************************************************************)
\* C30: every stored invoice whose for.id is set names a stored client.
C30_ClientsExist ==
    \A k \in DOMAIN invoices :
        ("id" \in DOMAIN invoices[k]["for"])
            => referenced_client(clients, invoices[k]) # None

====
